---- MODULE Spec2Model ----
(***************************************************************************)
(* Model of the X360 (XInput) class driver, the Microsoft OS 1.0           *)
(* descriptor responder and the custom HID class driver.                   *)
(*                                                                         *)
(* The two drivers live in two example applications (x360_gamepad and      *)
(* hid_custom_class); `app' records which of the two programs runs.        *)
(* The device stack (usbd_edpt_claim, usbd_edpt_xfer, usbd_open_edpt_pair, *)
(* tud_control_xfer, the dispatch of transfer-complete events) is outside  *)
(* the driver sources and is modelled by its contract.                     *)
(***************************************************************************)
EXTENDS Integers, Sequences, FiniteSets, TLC

VARIABLES
    app,      \* "x360" or "hid": the program that is running
    cbs,      \* names of the weak application callbacks that are linked in
    x360,     \* _x360_instances[CFG_APP_X360]
    chidd,    \* _chidd_instances[CFG_CUSTOM_HID]
    ep,       \* stack: per endpoint address, opened/claimed/busy and queued transfers
    last,     \* the call that was made last: operation, arguments, result, callbacks, control transfers
    outHist,  \* per X360 instance: the OUT messages dispatched since the last open/reset
    offered,  \* endpoint addresses offered to open since the last reset
    reoffer,  \* TRUE once an open was offered an endpoint address that was offered before
    ctl       \* stack: the control transfer in progress (at most one), <<>> when none

vars == <<app, cbs, x360, chidd, ep, last, outHist, offered, reoffer, ctl>>

-----------------------------------------------------------------------------
(* Program constants *)

CFG_APP_X360 == 1
CFG_CUSTOM_HID == 2
X360_TRANSFER_IN_BUFFER_SIZE == 20
X360_TRANSFER_OUT_BUFFER_SIZE == 8
X360_CLASS_CONTROL == 255
X360_SUBCLASS_CONTROL == 93
X360_PROTOCOL_CONTROL == 1
X360_CLASS_SPECIFIC_TYPE == 33
X360_HANDLE_RUMBLE == 0
X360_HANDLE_CONTROL == 256
X360_HANDLE_SERIAL == 0
X360_MESSAGE_TYPE_OUT_RUMBLE == 0
X360_MESSAGE_TYPE_OUT_LED == 1
X360_MESSAGE_TYPE_IN_INPUT == 0
X360_SERIAL_NUMBER == <<65, 66, 67>>
X360_RUMBLE_SUPPORT == <<0, 0>>
X360_INPUT_SUPPORT == <<255, 247, 255, 255, 0, 255, 0, 255, 0, 255, 0, 255, 0, 0, 0, 0, 0, 0>>
MS_OS_DESCRIPTOR_VENDORCODE == 66
MS_EXTENDED_COMPATID_DESCRIPTOR == 4
MS_EXTENDED_PROPERTIES_DESCRIPTOR == 5

SizeofDescInterface == 9
SizeofDescEndpoint == 7
SizeofX360DescSpecificClass == 17
SizeofHidDescriptorHid == 9
SizeofX360MessageControls == 20
SizeofX360Controls == 18
SizeofX360MessageRumble == 8
SizeofX360MessageLed == 3

TUSB_CLASS_HID == 3
HID_DESC_TYPE_HID == 33
HID_DESC_TYPE_REPORT == 34
HID_DESC_TYPE_PHYSICAL == 35
HID_PROTOCOL_REPORT == 1
HID_REPORT_TYPE_OUTPUT == 2
HID_REQ_CONTROL_GET_REPORT == 1
HID_REQ_CONTROL_GET_IDLE == 2
HID_REQ_CONTROL_GET_PROTOCOL == 3
HID_REQ_CONTROL_SET_REPORT == 9
HID_REQ_CONTROL_SET_IDLE == 10
HID_REQ_CONTROL_SET_PROTOCOL == 11
TUSB_REQ_GET_DESCRIPTOR == 6
TUSB_REQ_TYPE_STANDARD == 0
TUSB_REQ_TYPE_CLASS == 1
TUSB_REQ_TYPE_VENDOR == 2
TUSB_REQ_RCPT_DEVICE == 0
TUSB_REQ_RCPT_INTERFACE == 1
TUSB_REQ_RCPT_ENDPOINT == 2
TUSB_XFER_BULK == 2
TUSB_XFER_INTERRUPT == 3
TUSB_DIR_IN_MASK == 128
CONTROL_STAGE_SETUP == 1
CONTROL_STAGE_DATA == 2
CONTROL_STAGE_ACK == 3
XFER_RESULT_SUCCESS == 0
XFER_RESULT_FAILED == 1

-----------------------------------------------------------------------------
(* Bounds of the model *)

\* transfer lengths passed by the application are 0..MaxXferLen
MaxXferLen == 1

-----------------------------------------------------------------------------
(* Bytes, words and buffers *)

Zeros(n) == [i \in 1..n |-> 0]

\* memcpy(dst + off, src, n)
MemCpy(dst, off, src, n) ==
    [i \in 1..Len(dst) |-> IF i > off /\ i <= off + n THEN src[i - off] ELSE dst[i]]

tu_u16_low(w) == w % 256

tu_u16_high(w) == (w \div 256) % 256

\* tu_memcpy_s: refuses a copy that does not fit
tu_memcpy_s_ok(destsz, count) == count <= destsz

\* the first index of a set of indices, 0 (NULL) when there is none
FirstOf(S) == IF S = {} THEN 0 ELSE CHOOSE i \in S : \A j \in S : i <= j

\* addresses of the transfer buffers embedded in X360 instance i
X360InBuf(i) == 100 + i

X360OutBuf(i) == 200 + i

\* x360_controls_t is a packed union of 18 bytes; buttons.value is its first little-endian word
\* bit of the A face button in buttons.value
X360_BUTTON_A == 12

ControlsOf(buttons, tail) == <<buttons % 256, (buttons \div 256) % 256>> \o tail

ButtonsOf(c) == c[1] + 256 * c[2]

-----------------------------------------------------------------------------
(* The device stack *)

EpAddrs == {0, 1, 129, 2, 130}

EpIdle == [open |-> FALSE, claimed |-> FALSE, busy |-> FALSE, queue |-> <<>>]

\* usbd_edpt_claim: succeeds only on an endpoint that is neither busy nor claimed
usbd_edpt_claim_ok(e, a) == ~e[a].busy /\ ~e[a].claimed

usbd_edpt_claim(e, a) ==
    IF usbd_edpt_claim_ok(e, a) THEN [e EXCEPT ![a].claimed = TRUE] ELSE e

\* usbd_edpt_xfer: refuses a busy endpoint, otherwise marks it busy and submits
usbd_edpt_xfer_ok_NoBusyCheck(e, a) == TRUE

usbd_edpt_xfer_ok(e, a) == ~e[a].busy

usbd_edpt_xfer(e, a, buf, len) ==
    IF usbd_edpt_xfer_ok(e, a)
    THEN [e EXCEPT ![a].busy = TRUE,
                   ![a].queue = Append(@, [buf |-> buf, len |-> len])]
    ELSE e

usbd_edpt_busy(e, a) == e[a].busy

\* usbd_open_edpt_pair: opens the endpoint descriptors one by one and stops
\* at the first that is not of the wanted transfer type; the endpoints seen
\* so far are already opened and written to *ep_out / *ep_in.
RECURSIVE usbd_open_edpt_pair(_, _, _, _, _)
usbd_open_edpt_pair(e, eps, xfer_type, ep_out, ep_in) ==
    IF eps = <<>> THEN [ok |-> TRUE, ep |-> e, ep_out |-> ep_out, ep_in |-> ep_in]
    ELSE IF Head(eps).xfer # xfer_type
         THEN [ok |-> FALSE, ep |-> e, ep_out |-> ep_out, ep_in |-> ep_in]
         ELSE LET a == Head(eps).addr
                  e2 == [e EXCEPT ![a].open = TRUE]
              IN IF a >= TUSB_DIR_IN_MASK
                 THEN usbd_open_edpt_pair(e2, Tail(eps), xfer_type, ep_out, a)
                 ELSE usbd_open_edpt_pair(e2, Tail(eps), xfer_type, a, ep_in)

\* tud_control_xfer / tud_control_status: what the driver hands to the control endpoint
CtrlData(buf, data, len) == [kind |-> "data", buf |-> buf, data |-> data, len |-> len]

CtrlStatus == [kind |-> "status", buf |-> 0, data |-> <<>>, len |-> 0]

-----------------------------------------------------------------------------
(* X360 class driver *)

X360Idx == 1..CFG_APP_X360

X360Zero == [rhport |-> 0, itf_num |-> 0, ep_in |-> 0, ep_out |-> 0,
             transfer_in_buf |-> Zeros(X360_TRANSFER_IN_BUFFER_SIZE),
             transfer_out_buf |-> Zeros(X360_TRANSFER_OUT_BUFFER_SIZE),
             led |-> 0]

x360_get_free_instance(insts) ==
    FirstOf({i \in X360Idx : insts[i].ep_in = 0 /\ insts[i].ep_out = 0})

x360_get_instance_by_ep(insts, ep_addr) ==
    FirstOf({i \in X360Idx : ep_addr = insts[i].ep_in \/ ep_addr = insts[i].ep_out})

x360_get_instance_by_itf(insts, itf_num) ==
    FirstOf({i \in X360Idx : itf_num = insts[i].itf_num
                              /\ (insts[i].ep_in # 0 \/ insts[i].ep_out # 0)})

\* bool x360d_n_ready(itf_num), with tud_ready() taken as true
x360d_n_ready(insts, e, itf_num) ==
    LET p == x360_get_instance_by_itf(insts, itf_num)
    IN IF p = 0 THEN FALSE
       ELSE insts[p].ep_in # 0 /\ ~usbd_edpt_busy(e, insts[p].ep_in)

\* x360d_n_report that copies the controls to the start of the buffer
x360d_n_report_ControlsOverHeader(insts, e, itf_num, report) ==
    LET p == x360_get_instance_by_itf(insts, itf_num)
    IN IF p = 0 THEN [x |-> insts, ep |-> e, ret |-> FALSE]
       ELSE IF ~usbd_edpt_claim_ok(e, insts[p].ep_in)
       THEN [x |-> insts, ep |-> e, ret |-> FALSE]
       ELSE LET e1 == usbd_edpt_claim(e, insts[p].ep_in)
                len == SizeofX360MessageControls
                hdr == <<X360_MESSAGE_TYPE_IN_INPUT, SizeofX360MessageControls>>
                b1 == MemCpy(insts[p].transfer_in_buf, 0, hdr, 2)
                b2 == MemCpy(b1, 0, report, SizeofX360Controls)
            IN [x |-> [insts EXCEPT ![p].transfer_in_buf = b2],
                ep |-> usbd_edpt_xfer(e1, insts[p].ep_in, X360InBuf(p), len),
                ret |-> usbd_edpt_xfer_ok(e1, insts[p].ep_in)]

\* bool x360d_n_report(itf_num, report)
x360d_n_report(insts, e, itf_num, report) ==
    LET p == x360_get_instance_by_itf(insts, itf_num)
    IN IF p = 0 THEN [x |-> insts, ep |-> e, ret |-> FALSE]
       ELSE IF ~usbd_edpt_claim_ok(e, insts[p].ep_in)
       THEN [x |-> insts, ep |-> e, ret |-> FALSE]
       ELSE LET e1 == usbd_edpt_claim(e, insts[p].ep_in)
                len == SizeofX360MessageControls
            IN IF ~(len <= X360_TRANSFER_IN_BUFFER_SIZE)
               THEN [x |-> insts, ep |-> e1, ret |-> FALSE]
               ELSE LET hdr == <<X360_MESSAGE_TYPE_IN_INPUT, SizeofX360MessageControls>>
                        b1 == MemCpy(insts[p].transfer_in_buf, 0, hdr, 2)
                        b2 == MemCpy(b1, 2, report, SizeofX360Controls)
                    IN [x |-> [insts EXCEPT ![p].transfer_in_buf = b2],
                        ep |-> usbd_edpt_xfer(e1, insts[p].ep_in, X360InBuf(p), len),
                        ret |-> usbd_edpt_xfer_ok(e1, insts[p].ep_in)]

\* x360d_reset that clears nothing
x360d_reset_Nothing(insts) == insts

\* void x360d_reset(rhport)
x360d_reset(insts) == [i \in X360Idx |-> X360Zero]

\* x360d_open that matches the interface class alone
x360d_open_ClassOnly(insts, e, rhport, d, max_len) ==
    LET drv_len == SizeofDescInterface + SizeofX360DescSpecificClass
                   + Len(d.eps) * SizeofDescEndpoint
        p == x360_get_free_instance(insts)
        fail == [x |-> insts, ep |-> e, ret |-> 0]
    IN IF ~(d.cls = X360_CLASS_CONTROL) THEN fail
       ELSE IF ~(max_len >= drv_len) THEN fail
       ELSE IF p = 0 THEN fail
       ELSE IF d.ctype # X360_CLASS_SPECIFIC_TYPE THEN fail
       ELSE LET pr == usbd_open_edpt_pair(e, d.eps, TUSB_XFER_INTERRUPT,
                                          insts[p].ep_out, insts[p].ep_in)
                i1 == [insts EXCEPT ![p].ep_out = pr.ep_out, ![p].ep_in = pr.ep_in]
            IN IF ~pr.ok THEN [x |-> i1, ep |-> pr.ep, ret |-> 0]
               ELSE LET i2 == [i1 EXCEPT ![p].itf_num = d.itf, ![p].rhport = rhport]
                    IN IF i2[p].ep_out = 0 THEN [x |-> i2, ep |-> pr.ep, ret |-> drv_len]
                       ELSE [x |-> i2,
                             ep |-> usbd_edpt_xfer(pr.ep, i2[p].ep_out, X360OutBuf(p),
                                                   X360_TRANSFER_OUT_BUFFER_SIZE),
                             ret |-> drv_len]

\* uint16_t x360d_open(rhport, desc_itf, max_len)
x360d_open(insts, e, rhport, d, max_len) ==
    LET drv_len == SizeofDescInterface + SizeofX360DescSpecificClass
                   + Len(d.eps) * SizeofDescEndpoint
        p == x360_get_free_instance(insts)
        fail == [x |-> insts, ep |-> e, ret |-> 0]
    IN IF ~(d.cls = X360_CLASS_CONTROL /\ d.sub = X360_SUBCLASS_CONTROL
            /\ d.proto = X360_PROTOCOL_CONTROL) THEN fail
       ELSE IF ~(max_len >= drv_len) THEN fail
       ELSE IF p = 0 THEN fail
       ELSE IF d.ctype # X360_CLASS_SPECIFIC_TYPE THEN fail
       ELSE LET pr == usbd_open_edpt_pair(e, d.eps, TUSB_XFER_INTERRUPT,
                                          insts[p].ep_out, insts[p].ep_in)
                i1 == [insts EXCEPT ![p].ep_out = pr.ep_out, ![p].ep_in = pr.ep_in]
            IN IF ~pr.ok THEN [x |-> i1, ep |-> pr.ep, ret |-> 0]
               ELSE LET i2 == [i1 EXCEPT ![p].itf_num = d.itf, ![p].rhport = rhport]
                    IN IF i2[p].ep_out = 0 THEN [x |-> i2, ep |-> pr.ep, ret |-> drv_len]
                       ELSE [x |-> i2,
                             ep |-> usbd_edpt_xfer(pr.ep, i2[p].ep_out, X360OutBuf(p),
                                                   X360_TRANSFER_OUT_BUFFER_SIZE),
                             ret |-> drv_len]

\* x360d_report_out_received that never stores the new LED animation
x360d_report_out_received_LedNotStored(inst, cb, xferred_bytes) ==
    LET m == inst.transfer_out_buf
    IN IF SizeofX360MessageRumble = xferred_bytes /\ X360_MESSAGE_TYPE_OUT_RUMBLE = m[1]
       THEN [inst |-> inst,
             calls |-> IF "x360d_received_rumble_cb" \in cb
                       THEN <<[cb |-> "x360d_received_rumble_cb",
                               args |-> <<inst.itf_num, m[4], m[5]>>]>>
                       ELSE <<>>]
       ELSE IF SizeofX360MessageLed = xferred_bytes /\ X360_MESSAGE_TYPE_OUT_LED = m[1]
       THEN LET led == m[3]
            IN IF inst.led = led THEN [inst |-> inst, calls |-> <<>>]
               ELSE [inst |-> inst,
                     calls |-> IF "x360d_received_led_cb" \in cb
                               THEN <<[cb |-> "x360d_received_led_cb",
                                       args |-> <<inst.itf_num, led>>]>>
                               ELSE <<>>]
       ELSE [inst |-> inst, calls |-> <<>>]

\* x360d_report_out_received that takes every message of type rumble as a rumble
x360d_report_out_received_TypeOnly(inst, cb, xferred_bytes) ==
    LET m == inst.transfer_out_buf
    IN IF X360_MESSAGE_TYPE_OUT_RUMBLE = m[1]
       THEN [inst |-> inst,
             calls |-> IF "x360d_received_rumble_cb" \in cb
                       THEN <<[cb |-> "x360d_received_rumble_cb",
                               args |-> <<inst.itf_num, m[4], m[5]>>]>>
                       ELSE <<>>]
       ELSE IF SizeofX360MessageLed = xferred_bytes /\ X360_MESSAGE_TYPE_OUT_LED = m[1]
       THEN LET led == m[3]
            IN IF inst.led = led THEN [inst |-> inst, calls |-> <<>>]
               ELSE [inst |-> [inst EXCEPT !.led = led],
                     calls |-> IF "x360d_received_led_cb" \in cb
                               THEN <<[cb |-> "x360d_received_led_cb",
                                       args |-> <<inst.itf_num, led>>]>>
                               ELSE <<>>]
       ELSE [inst |-> inst, calls |-> <<>>]

\* x360d_report_out_received that reports every LED message, changed or not
x360d_report_out_received_NoDebounce(inst, cb, xferred_bytes) ==
    LET m == inst.transfer_out_buf
    IN IF SizeofX360MessageRumble = xferred_bytes /\ X360_MESSAGE_TYPE_OUT_RUMBLE = m[1]
       THEN [inst |-> inst,
             calls |-> IF "x360d_received_rumble_cb" \in cb
                       THEN <<[cb |-> "x360d_received_rumble_cb",
                               args |-> <<inst.itf_num, m[4], m[5]>>]>>
                       ELSE <<>>]
       ELSE IF SizeofX360MessageLed = xferred_bytes /\ X360_MESSAGE_TYPE_OUT_LED = m[1]
       THEN LET led == m[3]
            IN IF FALSE THEN [inst |-> inst, calls |-> <<>>]
               ELSE [inst |-> [inst EXCEPT !.led = led],
                     calls |-> IF "x360d_received_led_cb" \in cb
                               THEN <<[cb |-> "x360d_received_led_cb",
                                       args |-> <<inst.itf_num, led>>]>>
                               ELSE <<>>]
       ELSE [inst |-> inst, calls |-> <<>>]

\* static void x360d_report_out_received(p_itf, xferred_bytes)
x360d_report_out_received(inst, cb, xferred_bytes) ==
    LET m == inst.transfer_out_buf
    IN IF SizeofX360MessageRumble = xferred_bytes /\ X360_MESSAGE_TYPE_OUT_RUMBLE = m[1]
       THEN [inst |-> inst,
             calls |-> IF "x360d_received_rumble_cb" \in cb
                       THEN <<[cb |-> "x360d_received_rumble_cb",
                               args |-> <<inst.itf_num, m[4], m[5]>>]>>
                       ELSE <<>>]
       ELSE IF SizeofX360MessageLed = xferred_bytes /\ X360_MESSAGE_TYPE_OUT_LED = m[1]
       THEN LET led == m[3]
            IN IF inst.led = led THEN [inst |-> inst, calls |-> <<>>]
               ELSE [inst |-> [inst EXCEPT !.led = led],
                     calls |-> IF "x360d_received_led_cb" \in cb
                               THEN <<[cb |-> "x360d_received_led_cb",
                                       args |-> <<inst.itf_num, led>>]>>
                               ELSE <<>>]
       ELSE [inst |-> inst, calls |-> <<>>]

\* x360d_xfer_cb that drops a failed OUT transfer without queueing a new one
x360d_xfer_cb_FailedOutDropped(insts, e, cb, rhport, ep_addr, result, xferred_bytes) ==
    LET p == x360_get_instance_by_ep(insts, ep_addr)
    IN IF p = 0 THEN [at_cb |-> e, x |-> insts, ep |-> e, ret |-> FALSE, calls |-> <<>>]
       ELSE IF rhport # insts[p].rhport
       THEN [at_cb |-> e, x |-> insts, ep |-> e, ret |-> FALSE, calls |-> <<>>]
       ELSE IF XFER_RESULT_SUCCESS # result
       THEN IF "x360d_report_issue_cb" \in cb
            THEN [at_cb |-> e, x |-> insts, ep |-> e, ret |-> TRUE,
                  calls |-> <<[cb |-> "x360d_report_issue_cb",
                               args |-> <<insts[p].itf_num, ep_addr, result, xferred_bytes>>]>>]
            ELSE [at_cb |-> e, x |-> insts, ep |-> e, ret |-> TRUE, calls |-> <<>>]
       ELSE IF ep_addr = insts[p].ep_in
       THEN [at_cb |-> e, x |-> insts, ep |-> e, ret |-> TRUE,
             calls |-> IF "x360d_report_complete_cb" \in cb
                       THEN <<[cb |-> "x360d_report_complete_cb",
                               args |-> <<insts[p].itf_num, X360InBuf(p), xferred_bytes>>]>>
                       ELSE <<>>]
       ELSE IF ep_addr = insts[p].ep_out
       THEN LET r == x360d_report_out_received(insts[p], cb, xferred_bytes)
            IN [at_cb |-> e, x |-> [insts EXCEPT ![p] = r.inst],
                ep |-> usbd_edpt_xfer(e, insts[p].ep_out, X360OutBuf(p),
                                      X360_TRANSFER_OUT_BUFFER_SIZE),
                ret |-> usbd_edpt_xfer_ok(e, insts[p].ep_out), calls |-> r.calls]
       ELSE [at_cb |-> e, x |-> insts, ep |-> e, ret |-> TRUE, calls |-> <<>>]

\* x360d_xfer_cb that queues a new OUT transfer after x360d_report_issue_cb
x360d_xfer_cb_RearmAfterIssueCb(insts, e, cb, rhport, ep_addr, result, xferred_bytes) ==
    LET p == x360_get_instance_by_ep(insts, ep_addr)
    IN IF p = 0 THEN [at_cb |-> e, x |-> insts, ep |-> e, ret |-> FALSE, calls |-> <<>>]
       ELSE IF rhport # insts[p].rhport
       THEN [at_cb |-> e, x |-> insts, ep |-> e, ret |-> FALSE, calls |-> <<>>]
       ELSE IF XFER_RESULT_SUCCESS # result
       THEN IF "x360d_report_issue_cb" \in cb
            THEN [at_cb |-> e, x |-> insts,
                  ep |-> IF ep_addr = insts[p].ep_out
                         THEN usbd_edpt_xfer(e, insts[p].ep_out, X360OutBuf(p),
                                             X360_TRANSFER_OUT_BUFFER_SIZE)
                         ELSE e,
                  ret |-> TRUE,
                  calls |-> <<[cb |-> "x360d_report_issue_cb",
                               args |-> <<insts[p].itf_num, ep_addr, result, xferred_bytes>>]>>]
            ELSE IF ep_addr = insts[p].ep_out
            THEN [at_cb |-> e, x |-> insts,
                  ep |-> usbd_edpt_xfer(e, insts[p].ep_out, X360OutBuf(p),
                                        X360_TRANSFER_OUT_BUFFER_SIZE),
                  ret |-> usbd_edpt_xfer_ok(e, insts[p].ep_out), calls |-> <<>>]
            ELSE [at_cb |-> e, x |-> insts, ep |-> e, ret |-> TRUE, calls |-> <<>>]
       ELSE IF ep_addr = insts[p].ep_in
       THEN [at_cb |-> e, x |-> insts, ep |-> e, ret |-> TRUE,
             calls |-> IF "x360d_report_complete_cb" \in cb
                       THEN <<[cb |-> "x360d_report_complete_cb",
                               args |-> <<insts[p].itf_num, X360InBuf(p), xferred_bytes>>]>>
                       ELSE <<>>]
       ELSE IF ep_addr = insts[p].ep_out
       THEN LET r == x360d_report_out_received(insts[p], cb, xferred_bytes)
            IN [at_cb |-> e, x |-> [insts EXCEPT ![p] = r.inst],
                ep |-> usbd_edpt_xfer(e, insts[p].ep_out, X360OutBuf(p),
                                      X360_TRANSFER_OUT_BUFFER_SIZE),
                ret |-> usbd_edpt_xfer_ok(e, insts[p].ep_out), calls |-> r.calls]
       ELSE [at_cb |-> e, x |-> insts, ep |-> e, ret |-> TRUE, calls |-> <<>>]

\* x360d_xfer_cb that arms the OUT endpoint again before it dispatches the
\* received message.
x360d_xfer_cb_RearmBeforeDispatch(insts, e, cb, rhport, ep_addr, result, xferred_bytes) ==
    LET p == x360_get_instance_by_ep(insts, ep_addr)
    IN IF p = 0 THEN [at_cb |-> e, x |-> insts, ep |-> e, ret |-> FALSE, calls |-> <<>>]
       ELSE IF rhport # insts[p].rhport
       THEN [at_cb |-> e, x |-> insts, ep |-> e, ret |-> FALSE, calls |-> <<>>]
       ELSE IF XFER_RESULT_SUCCESS # result
       THEN IF "x360d_report_issue_cb" \in cb
            THEN [at_cb |-> e, x |-> insts, ep |-> e, ret |-> TRUE,
                  calls |-> <<[cb |-> "x360d_report_issue_cb",
                               args |-> <<insts[p].itf_num, ep_addr, result, xferred_bytes>>]>>]
            ELSE IF ep_addr = insts[p].ep_out
            THEN [at_cb |-> e, x |-> insts,
                  ep |-> usbd_edpt_xfer(e, insts[p].ep_out, X360OutBuf(p),
                                        X360_TRANSFER_OUT_BUFFER_SIZE),
                  ret |-> usbd_edpt_xfer_ok(e, insts[p].ep_out), calls |-> <<>>]
            ELSE [at_cb |-> e, x |-> insts, ep |-> e, ret |-> TRUE, calls |-> <<>>]
       ELSE IF ep_addr = insts[p].ep_in
       THEN [at_cb |-> e, x |-> insts, ep |-> e, ret |-> TRUE,
             calls |-> IF "x360d_report_complete_cb" \in cb
                       THEN <<[cb |-> "x360d_report_complete_cb",
                               args |-> <<insts[p].itf_num, X360InBuf(p), xferred_bytes>>]>>
                       ELSE <<>>]
       ELSE IF ep_addr = insts[p].ep_out
       THEN LET r == x360d_report_out_received(insts[p], cb, xferred_bytes)
            IN [at_cb |-> usbd_edpt_xfer(e, insts[p].ep_out, X360OutBuf(p),
                                         X360_TRANSFER_OUT_BUFFER_SIZE),
                x |-> [insts EXCEPT ![p] = r.inst],
                ep |-> usbd_edpt_xfer(e, insts[p].ep_out, X360OutBuf(p),
                                      X360_TRANSFER_OUT_BUFFER_SIZE),
                ret |-> usbd_edpt_xfer_ok(e, insts[p].ep_out), calls |-> r.calls]
       ELSE [at_cb |-> e, x |-> insts, ep |-> e, ret |-> TRUE, calls |-> <<>>]

\* bool x360d_xfer_cb(rhport, ep_addr, result, xferred_bytes)
\* at_cb is the state of the endpoints while the application callbacks of the
\* call run: every callback precedes the usbd_edpt_xfer that arms OUT again
x360d_xfer_cb(insts, e, cb, rhport, ep_addr, result, xferred_bytes) ==
    LET p == x360_get_instance_by_ep(insts, ep_addr)
    IN IF p = 0 THEN [at_cb |-> e, x |-> insts, ep |-> e, ret |-> FALSE, calls |-> <<>>]
       ELSE IF rhport # insts[p].rhport
       THEN [at_cb |-> e, x |-> insts, ep |-> e, ret |-> FALSE, calls |-> <<>>]
       ELSE IF XFER_RESULT_SUCCESS # result
       THEN IF "x360d_report_issue_cb" \in cb
            THEN [at_cb |-> e, x |-> insts, ep |-> e, ret |-> TRUE,
                  calls |-> <<[cb |-> "x360d_report_issue_cb",
                               args |-> <<insts[p].itf_num, ep_addr, result, xferred_bytes>>]>>]
            ELSE IF ep_addr = insts[p].ep_out
            THEN [at_cb |-> e, x |-> insts,
                  ep |-> usbd_edpt_xfer(e, insts[p].ep_out, X360OutBuf(p),
                                        X360_TRANSFER_OUT_BUFFER_SIZE),
                  ret |-> usbd_edpt_xfer_ok(e, insts[p].ep_out), calls |-> <<>>]
            ELSE [at_cb |-> e, x |-> insts, ep |-> e, ret |-> TRUE, calls |-> <<>>]
       ELSE IF ep_addr = insts[p].ep_in
       THEN [at_cb |-> e, x |-> insts, ep |-> e, ret |-> TRUE,
             calls |-> IF "x360d_report_complete_cb" \in cb
                       THEN <<[cb |-> "x360d_report_complete_cb",
                               args |-> <<insts[p].itf_num, X360InBuf(p), xferred_bytes>>]>>
                       ELSE <<>>]
       ELSE IF ep_addr = insts[p].ep_out
       THEN LET r == x360d_report_out_received(insts[p], cb, xferred_bytes)
            IN [at_cb |-> e, x |-> [insts EXCEPT ![p] = r.inst],
                ep |-> usbd_edpt_xfer(e, insts[p].ep_out, X360OutBuf(p),
                                      X360_TRANSFER_OUT_BUFFER_SIZE),
                ret |-> usbd_edpt_xfer_ok(e, insts[p].ep_out), calls |-> r.calls]
       ELSE [at_cb |-> e, x |-> insts, ep |-> e, ret |-> TRUE, calls |-> <<>>]

-----------------------------------------------------------------------------
(* Custom HID class driver *)

ChiddIdx == 1..CFG_CUSTOM_HID

ChiddZero == [rhport |-> 0, itf_num |-> 0, ep_in |-> 0, ep_out |-> 0,
              transfer_in_buf |-> 0, transfer_out_buf |-> 0, transfer_out_size |-> 0,
              protocol_mode |-> 0, idle_rate |-> 0, hid_descriptor |-> 0]

\* what the application does inside a hook: nothing, or one chidd_receive_report
NoRearm == [do |-> FALSE, itf |-> 0, buf |-> 0, len |-> 0]

\* get_free_instance that hands out the last slot when none is free
chidd_get_free_instance_LastWhenFull(insts) ==
    IF \E i \in ChiddIdx : insts[i].ep_in = 0 /\ insts[i].ep_out = 0
    THEN FirstOf({i \in ChiddIdx : insts[i].ep_in = 0 /\ insts[i].ep_out = 0})
    ELSE CFG_CUSTOM_HID

chidd_get_free_instance(insts) ==
    FirstOf({i \in ChiddIdx : insts[i].ep_in = 0 /\ insts[i].ep_out = 0})

chidd_get_instance_by_ep(insts, ep_addr) ==
    FirstOf({i \in ChiddIdx : ep_addr = insts[i].ep_in \/ ep_addr = insts[i].ep_out})

\* get_instance_by_itf that does not skip free slots
chidd_get_instance_by_itf_FreeNotSkipped(insts, itf_num) ==
    FirstOf({i \in ChiddIdx : itf_num = insts[i].itf_num})

chidd_get_instance_by_itf(insts, itf_num) ==
    FirstOf({i \in ChiddIdx : itf_num = insts[i].itf_num
                               /\ (insts[i].ep_in # 0 \/ insts[i].ep_out # 0)})

\* bool chidd_ready(itf_num), with tud_ready() taken as true
chidd_ready(insts, e, itf_num) ==
    LET p == chidd_get_instance_by_itf(insts, itf_num)
    IN IF p = 0 THEN FALSE
       ELSE insts[p].ep_in # 0 /\ ~usbd_edpt_busy(e, insts[p].ep_in)

\* chidd_send_report that submits the buffer stored by the previous call
chidd_send_report_StaleBuffer(insts, e, itf_num, report, len) ==
    LET p == chidd_get_instance_by_itf(insts, itf_num)
    IN IF p = 0 THEN [c |-> insts, ep |-> e, ret |-> FALSE]
       ELSE IF ~usbd_edpt_claim_ok(e, insts[p].ep_in)
       THEN [c |-> insts, ep |-> e, ret |-> FALSE]
       ELSE LET e1 == usbd_edpt_claim(e, insts[p].ep_in)
                i1 == [insts EXCEPT ![p].transfer_in_buf = report]
            IN IF ~(report # 0 /\ len # 0) THEN [c |-> i1, ep |-> e1, ret |-> FALSE]
               ELSE [c |-> i1,
                     ep |-> usbd_edpt_xfer(e1, i1[p].ep_in, insts[p].transfer_in_buf, len),
                     ret |-> usbd_edpt_xfer_ok(e1, i1[p].ep_in)]

\* chidd_send_report that goes on when the endpoint claim fails
chidd_send_report_ClaimIgnored(insts, e, itf_num, report, len) ==
    LET p == chidd_get_instance_by_itf(insts, itf_num)
    IN IF p = 0 THEN [c |-> insts, ep |-> e, ret |-> FALSE]
       ELSE LET e1 == usbd_edpt_claim(e, insts[p].ep_in)
                i1 == [insts EXCEPT ![p].transfer_in_buf = report]
            IN IF ~(report # 0 /\ len # 0) THEN [c |-> i1, ep |-> e1, ret |-> FALSE]
               ELSE [c |-> i1,
                     ep |-> usbd_edpt_xfer(e1, i1[p].ep_in, i1[p].transfer_in_buf, len),
                     ret |-> usbd_edpt_xfer_ok(e1, i1[p].ep_in)]

\* bool chidd_send_report(itf_num, report, len)
chidd_send_report(insts, e, itf_num, report, len) ==
    LET p == chidd_get_instance_by_itf(insts, itf_num)
    IN IF p = 0 THEN [c |-> insts, ep |-> e, ret |-> FALSE]
       ELSE IF ~usbd_edpt_claim_ok(e, insts[p].ep_in)
       THEN [c |-> insts, ep |-> e, ret |-> FALSE]
       ELSE LET e1 == usbd_edpt_claim(e, insts[p].ep_in)
                i1 == [insts EXCEPT ![p].transfer_in_buf = report]
            IN IF ~(report # 0 /\ len # 0) THEN [c |-> i1, ep |-> e1, ret |-> FALSE]
               ELSE [c |-> i1,
                     ep |-> usbd_edpt_xfer(e1, i1[p].ep_in, i1[p].transfer_in_buf, len),
                     ret |-> usbd_edpt_xfer_ok(e1, i1[p].ep_in)]

\* bool chidd_receive_report(itf_num, report, len)
chidd_receive_report(insts, e, itf_num, report, len) ==
    LET p == chidd_get_instance_by_itf(insts, itf_num)
    IN IF p = 0 THEN [c |-> insts, ep |-> e, ret |-> FALSE]
       ELSE IF ~(report # 0 /\ 0 < len) THEN [c |-> insts, ep |-> e, ret |-> FALSE]
       ELSE LET i1 == [insts EXCEPT ![p].transfer_out_buf = report,
                                    ![p].transfer_out_size = len]
            IN [c |-> i1,
                ep |-> usbd_edpt_xfer(e, i1[p].ep_out, i1[p].transfer_out_buf,
                                      i1[p].transfer_out_size),
                ret |-> usbd_edpt_xfer_ok(e, i1[p].ep_out)]

\* the application's hook body: at most one chidd_receive_report
AppRearm(insts, e, rearm) ==
    IF rearm.do THEN chidd_receive_report(insts, e, rearm.itf, rearm.buf, rearm.len)
    ELSE [c |-> insts, ep |-> e, ret |-> FALSE]

\* chidd_reset that clears the first instance only
chidd_reset_FirstOnly(insts) == [insts EXCEPT ![1] = ChiddZero]

\* void chidd_reset(rhport)
chidd_reset(insts) == [i \in ChiddIdx |-> ChiddZero]

\* chidd_open that does not compare max_len with the block length
chidd_open_NoLenCheck(insts, e, cb, rhport, d, max_len, rearm) ==
    LET drv_len == SizeofDescInterface + SizeofHidDescriptorHid
                   + Len(d.eps) * SizeofDescEndpoint
        p == chidd_get_free_instance(insts)
        fail == [c |-> insts, ep |-> e, ret |-> 0, calls |-> <<>>]
    IN IF ~(TUSB_CLASS_HID = d.cls) THEN fail
       ELSE IF p = 0 THEN fail
       ELSE IF d.ctype # HID_DESC_TYPE_HID THEN fail
       ELSE LET i0 == [insts EXCEPT ![p].hid_descriptor = d.hid]
                pr == usbd_open_edpt_pair(e, d.eps, TUSB_XFER_INTERRUPT,
                                          i0[p].ep_out, i0[p].ep_in)
                i1 == [i0 EXCEPT ![p].ep_out = pr.ep_out, ![p].ep_in = pr.ep_in]
            IN IF ~pr.ok THEN [c |-> i1, ep |-> pr.ep, ret |-> 0, calls |-> <<>>]
               ELSE LET i2 == [i1 EXCEPT ![p].itf_num = d.itf, ![p].rhport = rhport,
                                         ![p].protocol_mode = HID_PROTOCOL_REPORT]
                    IN IF i2[p].ep_out # 0 /\ "chidd_out_endpoint_opened_cb" \in cb
                       THEN LET h == AppRearm(i2, pr.ep, rearm)
                            IN [c |-> h.c, ep |-> h.ep, ret |-> drv_len,
                                calls |-> <<[cb |-> "chidd_out_endpoint_opened_cb",
                                             args |-> <<i2[p].itf_num>>]>>]
                       ELSE [c |-> i2, ep |-> pr.ep, ret |-> drv_len, calls |-> <<>>]

\* chidd_open that calls the hook before it opens the endpoints
chidd_open_HookFirst(insts, e, cb, rhport, d, max_len, rearm) ==
    LET drv_len == SizeofDescInterface + SizeofHidDescriptorHid
                   + Len(d.eps) * SizeofDescEndpoint
        p == chidd_get_free_instance(insts)
        fail == [c |-> insts, ep |-> e, ret |-> 0, calls |-> <<>>]
    IN IF ~(TUSB_CLASS_HID = d.cls) THEN fail
       ELSE IF ~(max_len >= drv_len) THEN fail
       ELSE IF p = 0 THEN fail
       ELSE IF d.ctype # HID_DESC_TYPE_HID THEN fail
       ELSE LET i0 == [insts EXCEPT ![p].hid_descriptor = d.hid]
                h == AppRearm(i0, e, rearm)
                pr == usbd_open_edpt_pair(h.ep, d.eps, TUSB_XFER_INTERRUPT,
                                          h.c[p].ep_out, h.c[p].ep_in)
                i1 == [h.c EXCEPT ![p].ep_out = pr.ep_out, ![p].ep_in = pr.ep_in]
            IN IF ~pr.ok THEN [c |-> i1, ep |-> pr.ep, ret |-> 0, calls |-> <<>>]
               ELSE LET i2 == [i1 EXCEPT ![p].itf_num = d.itf, ![p].rhport = rhport,
                                         ![p].protocol_mode = HID_PROTOCOL_REPORT]
                    IN IF i2[p].ep_out # 0 /\ "chidd_out_endpoint_opened_cb" \in cb
                       THEN [c |-> i2, ep |-> pr.ep, ret |-> drv_len,
                             calls |-> <<[cb |-> "chidd_out_endpoint_opened_cb",
                                          args |-> <<i2[p].itf_num>>]>>]
                       ELSE [c |-> i2, ep |-> pr.ep, ret |-> drv_len, calls |-> <<>>]

\* uint16_t chidd_open(rhport, desc_itf, max_len)
chidd_open(insts, e, cb, rhport, d, max_len, rearm) ==
    LET drv_len == SizeofDescInterface + SizeofHidDescriptorHid
                   + Len(d.eps) * SizeofDescEndpoint
        p == chidd_get_free_instance(insts)
        fail == [c |-> insts, ep |-> e, ret |-> 0, calls |-> <<>>]
    IN IF ~(TUSB_CLASS_HID = d.cls) THEN fail
       ELSE IF ~(max_len >= drv_len) THEN fail
       ELSE IF p = 0 THEN fail
       ELSE IF d.ctype # HID_DESC_TYPE_HID THEN fail
       ELSE LET i0 == [insts EXCEPT ![p].hid_descriptor = d.hid]
                pr == usbd_open_edpt_pair(e, d.eps, TUSB_XFER_INTERRUPT,
                                          i0[p].ep_out, i0[p].ep_in)
                i1 == [i0 EXCEPT ![p].ep_out = pr.ep_out, ![p].ep_in = pr.ep_in]
            IN IF ~pr.ok THEN [c |-> i1, ep |-> pr.ep, ret |-> 0, calls |-> <<>>]
               ELSE LET i2 == [i1 EXCEPT ![p].itf_num = d.itf, ![p].rhport = rhport,
                                         ![p].protocol_mode = HID_PROTOCOL_REPORT]
                    IN IF i2[p].ep_out # 0 /\ "chidd_out_endpoint_opened_cb" \in cb
                       THEN LET h == AppRearm(i2, pr.ep, rearm)
                            IN [c |-> h.c, ep |-> h.ep, ret |-> drv_len,
                                calls |-> <<[cb |-> "chidd_out_endpoint_opened_cb",
                                             args |-> <<i2[p].itf_num>>]>>]
                       ELSE [c |-> i2, ep |-> pr.ep, ret |-> drv_len, calls |-> <<>>]

\* chidd_xfer_cb that clears the OUT buffer after the application's callback
chidd_xfer_cb_ClearedAfterCallback(insts, e, cb, rhport, ep_addr, result, xferred_bytes, rearm) ==
    LET p == chidd_get_instance_by_ep(insts, ep_addr)
    IN IF p = 0 THEN [c |-> insts, ep |-> e, ret |-> FALSE, calls |-> <<>>]
       ELSE IF rhport # insts[p].rhport
       THEN [c |-> insts, ep |-> e, ret |-> FALSE, calls |-> <<>>]
       ELSE IF XFER_RESULT_SUCCESS # result
       THEN IF "chidd_report_issue_cb" \in cb
            THEN LET h == AppRearm(insts, e, rearm)
                 IN [c |-> h.c, ep |-> h.ep, ret |-> TRUE,
                     calls |-> <<[cb |-> "chidd_report_issue_cb",
                                  args |-> <<insts[p].itf_num, ep_addr, result,
                                             xferred_bytes>>]>>]
            ELSE IF ep_addr = insts[p].ep_out
            THEN [c |-> insts,
                  ep |-> usbd_edpt_xfer(e, insts[p].ep_out, insts[p].transfer_out_buf,
                                        insts[p].transfer_out_size),
                  ret |-> usbd_edpt_xfer_ok(e, insts[p].ep_out), calls |-> <<>>]
            ELSE [c |-> insts, ep |-> e, ret |-> TRUE, calls |-> <<>>]
       ELSE IF ep_addr = insts[p].ep_in
       THEN [c |-> insts, ep |-> e, ret |-> TRUE,
             calls |-> IF "chidd_report_sent_complete_cb" \in cb
                       THEN <<[cb |-> "chidd_report_sent_complete_cb",
                               args |-> <<insts[p].itf_num, insts[p].transfer_in_buf,
                                          xferred_bytes>>]>>
                       ELSE <<>>]
       ELSE IF ep_addr = insts[p].ep_out
       THEN LET buffer == insts[p].transfer_out_buf
                i1 == [insts EXCEPT ![p].transfer_out_buf = 0,
                                    ![p].transfer_out_size = 0]
            IN IF "chidd_report_received_complete_cb" \in cb
               THEN LET h == AppRearm(insts, e, rearm)
                    IN [c |-> [h.c EXCEPT ![p].transfer_out_buf = 0,
                                          ![p].transfer_out_size = 0],
                        ep |-> h.ep, ret |-> TRUE,
                        calls |-> <<[cb |-> "chidd_report_received_complete_cb",
                                     args |-> <<i1[p].itf_num, 255, HID_REPORT_TYPE_OUTPUT,
                                                buffer, xferred_bytes>>]>>]
               ELSE [c |-> i1, ep |-> e, ret |-> TRUE, calls |-> <<>>]
       ELSE [c |-> insts, ep |-> e, ret |-> TRUE, calls |-> <<>>]

\* bool chidd_xfer_cb(rhport, ep_addr, result, xferred_bytes)
chidd_xfer_cb(insts, e, cb, rhport, ep_addr, result, xferred_bytes, rearm) ==
    LET p == chidd_get_instance_by_ep(insts, ep_addr)
    IN IF p = 0 THEN [c |-> insts, ep |-> e, ret |-> FALSE, calls |-> <<>>]
       ELSE IF rhport # insts[p].rhport
       THEN [c |-> insts, ep |-> e, ret |-> FALSE, calls |-> <<>>]
       ELSE IF XFER_RESULT_SUCCESS # result
       THEN IF "chidd_report_issue_cb" \in cb
            THEN LET h == AppRearm(insts, e, rearm)
                 IN [c |-> h.c, ep |-> h.ep, ret |-> TRUE,
                     calls |-> <<[cb |-> "chidd_report_issue_cb",
                                  args |-> <<insts[p].itf_num, ep_addr, result,
                                             xferred_bytes>>]>>]
            ELSE IF ep_addr = insts[p].ep_out
            THEN [c |-> insts,
                  ep |-> usbd_edpt_xfer(e, insts[p].ep_out, insts[p].transfer_out_buf,
                                        insts[p].transfer_out_size),
                  ret |-> usbd_edpt_xfer_ok(e, insts[p].ep_out), calls |-> <<>>]
            ELSE [c |-> insts, ep |-> e, ret |-> TRUE, calls |-> <<>>]
       ELSE IF ep_addr = insts[p].ep_in
       THEN [c |-> insts, ep |-> e, ret |-> TRUE,
             calls |-> IF "chidd_report_sent_complete_cb" \in cb
                       THEN <<[cb |-> "chidd_report_sent_complete_cb",
                               args |-> <<insts[p].itf_num, insts[p].transfer_in_buf,
                                          xferred_bytes>>]>>
                       ELSE <<>>]
       ELSE IF ep_addr = insts[p].ep_out
       THEN LET buffer == insts[p].transfer_out_buf
                i1 == [insts EXCEPT ![p].transfer_out_buf = 0,
                                    ![p].transfer_out_size = 0]
            IN IF "chidd_report_received_complete_cb" \in cb
               THEN LET h == AppRearm(i1, e, rearm)
                    IN [c |-> h.c, ep |-> h.ep, ret |-> TRUE,
                        calls |-> <<[cb |-> "chidd_report_received_complete_cb",
                                     args |-> <<i1[p].itf_num, 255, HID_REPORT_TYPE_OUTPUT,
                                                buffer, xferred_bytes>>]>>]
               ELSE [c |-> i1, ep |-> e, ret |-> TRUE, calls |-> <<>>]
       ELSE [c |-> insts, ep |-> e, ret |-> TRUE, calls |-> <<>>]

-----------------------------------------------------------------------------
(* X360 vendor requests and the MS OS 1.0 responder *)

\* the capability messages built on the handler's stack
RumbleCapability ==
    <<X360_MESSAGE_TYPE_OUT_RUMBLE, SizeofX360MessageRumble, 0>>
    \o X360_RUMBLE_SUPPORT \o <<0, 0, 0>>

InputCapability ==
    <<X360_MESSAGE_TYPE_IN_INPUT, SizeofX360MessageControls>> \o X360_INPUT_SUPPORT

\* static inline bool x360d_interface_request_handler(p_itf, stage, request)
x360d_interface_request_handler(insts, p, stage, req) ==
    IF req.wValue = X360_HANDLE_RUMBLE
    THEN IF CONTROL_STAGE_SETUP # stage THEN [x |-> insts, ret |-> TRUE, ctrl |-> <<>>]
         ELSE LET len == SizeofX360MessageRumble
                  b == MemCpy(insts[p].transfer_in_buf, 0, RumbleCapability, len)
              IN IF ~(X360_TRANSFER_IN_BUFFER_SIZE >= len)
                 THEN [x |-> insts, ret |-> FALSE, ctrl |-> <<>>]
                 ELSE [x |-> [insts EXCEPT ![p].transfer_in_buf = b], ret |-> TRUE,
                       ctrl |-> <<CtrlData(X360InBuf(p), SubSeq(b, 1, len), len)>>]
    ELSE IF req.wValue = X360_HANDLE_CONTROL
    THEN IF CONTROL_STAGE_SETUP # stage THEN [x |-> insts, ret |-> TRUE, ctrl |-> <<>>]
         ELSE LET len == SizeofX360MessageControls
                  b == MemCpy(insts[p].transfer_in_buf, 0, InputCapability, len)
              IN IF ~(X360_TRANSFER_IN_BUFFER_SIZE >= len)
                 THEN [x |-> insts, ret |-> FALSE, ctrl |-> <<>>]
                 ELSE [x |-> [insts EXCEPT ![p].transfer_in_buf = b], ret |-> TRUE,
                       ctrl |-> <<CtrlData(X360InBuf(p), SubSeq(b, 1, len), len)>>]
    ELSE [x |-> insts, ret |-> FALSE, ctrl |-> <<>>]

\* x360d_device_request_handler that replies at every stage
x360d_device_request_handler_EveryStage(insts, p, stage, req) ==
    IF req.wValue = X360_HANDLE_SERIAL
    THEN LET len == Len(X360_SERIAL_NUMBER)
             b == MemCpy(insts[p].transfer_in_buf, 0, X360_SERIAL_NUMBER, len)
         IN IF ~tu_memcpy_s_ok(X360_TRANSFER_IN_BUFFER_SIZE, len)
            THEN [x |-> insts, ret |-> FALSE, ctrl |-> <<>>]
            ELSE [x |-> [insts EXCEPT ![p].transfer_in_buf = b], ret |-> TRUE,
                  ctrl |-> <<CtrlData(X360InBuf(p), SubSeq(b, 1, len), len)>>]
    ELSE [x |-> insts, ret |-> FALSE, ctrl |-> <<>>]

\* static inline bool x360d_device_request_handler(p_itf, stage, request)
x360d_device_request_handler(insts, p, stage, req) ==
    IF req.wValue = X360_HANDLE_SERIAL
    THEN IF CONTROL_STAGE_SETUP # stage THEN [x |-> insts, ret |-> TRUE, ctrl |-> <<>>]
         ELSE LET len == Len(X360_SERIAL_NUMBER)
                  b == MemCpy(insts[p].transfer_in_buf, 0, X360_SERIAL_NUMBER, len)
              IN IF ~tu_memcpy_s_ok(X360_TRANSFER_IN_BUFFER_SIZE, len)
                 THEN [x |-> insts, ret |-> FALSE, ctrl |-> <<>>]
                 ELSE [x |-> [insts EXCEPT ![p].transfer_in_buf = b], ret |-> TRUE,
                       ctrl |-> <<CtrlData(X360InBuf(p), SubSeq(b, 1, len), len)>>]
    ELSE [x |-> insts, ret |-> FALSE, ctrl |-> <<>>]

\* x360d_control_xfer_cb that hands every recipient to the interface handler
x360d_control_xfer_cb_RecipientIgnored(insts, rhport, stage, req) ==
    LET p == x360_get_instance_by_itf(insts, req.wIndex % 256)
        unhandled == [x |-> insts, ret |-> FALSE, ctrl |-> <<>>]
    IN IF TUSB_REQ_TYPE_VENDOR # req.type THEN unhandled
       ELSE IF 1 # req.bRequest THEN unhandled
       ELSE IF p = 0 THEN unhandled
       ELSE IF rhport # insts[p].rhport THEN unhandled
       ELSE IF insts[p].itf_num # req.wIndex THEN unhandled
       ELSE x360d_interface_request_handler(insts, p, stage, req)

\* x360d_control_xfer_cb that compares only the low byte of wIndex with the
\* interface number.
x360d_control_xfer_cb_LowByteOnly(insts, rhport, stage, req) ==
    LET p == x360_get_instance_by_itf(insts, req.wIndex % 256)
        unhandled == [x |-> insts, ret |-> FALSE, ctrl |-> <<>>]
    IN IF TUSB_REQ_TYPE_VENDOR # req.type THEN unhandled
       ELSE IF 1 # req.bRequest THEN unhandled
       ELSE IF p = 0 THEN unhandled
       ELSE IF rhport # insts[p].rhport THEN unhandled
       ELSE IF insts[p].itf_num # req.wIndex % 256 THEN unhandled
       ELSE IF req.rcpt = TUSB_REQ_RCPT_INTERFACE
       THEN x360d_interface_request_handler(insts, p, stage, req)
       ELSE IF req.rcpt = TUSB_REQ_RCPT_DEVICE
       THEN x360d_device_request_handler(insts, p, stage, req)
       ELSE unhandled

\* bool x360d_control_xfer_cb(rhport, stage, request)
x360d_control_xfer_cb(insts, rhport, stage, req) ==
    LET p == x360_get_instance_by_itf(insts, req.wIndex % 256)
        unhandled == [x |-> insts, ret |-> FALSE, ctrl |-> <<>>]
    IN IF TUSB_REQ_TYPE_VENDOR # req.type THEN unhandled
       ELSE IF 1 # req.bRequest THEN unhandled
       ELSE IF p = 0 THEN unhandled
       ELSE IF rhport # insts[p].rhport THEN unhandled
       ELSE IF insts[p].itf_num # req.wIndex THEN unhandled
       ELSE IF req.rcpt = TUSB_REQ_RCPT_INTERFACE
       THEN x360d_interface_request_handler(insts, p, stage, req)
       ELSE IF req.rcpt = TUSB_REQ_RCPT_DEVICE
       THEN x360d_device_request_handler(insts, p, stage, req)
       ELSE unhandled

\* tu_le16toh / tu_le32toh on the little-endian target: the n bytes of v in
\* memory order
tu_le(v, n) == [k \in 1..n |-> (v \div (256 ^ (k - 1))) % 256]

MS_OS_DESCRIPTOR_STRING_INDEX == 238

MS_OS_DESCRIPTOR_BCD_VERSION == 256

\* "MSFT100" in 16-bit code units
MS_OS_DESCRIPTOR_SIGNATURE == <<77, 0, 83, 0, 70, 0, 84, 0, 49, 0, 48, 0, 48, 0>>

MS_OS_DESCRIPTOR_CONTAINERID_SUPPORT == 1

SizeofMsCompatIdDescriptor == 40

\* static const ms_extended_compatID_os_feature_descriptor_t ms_driver: the
\* 16-byte header and one 24-byte function section with "XUSB10\0\0"
ms_driver ==
    tu_le(SizeofMsCompatIdDescriptor, 4) \o tu_le(MS_OS_DESCRIPTOR_BCD_VERSION, 2)
      \o tu_le(MS_EXTENDED_COMPATID_DESCRIPTOR, 2) \o <<1>> \o Zeros(7)
      \o <<0, 1>> \o <<88, 85, 83, 66, 49, 48, 0, 0>> \o Zeros(8) \o Zeros(6)

TUSB_DESC_STRING == 3

\* number of regular string descriptors: language IDs, manufacturer, product
\* and serial number
STRID_TOTAL == 4

\* static const ms_os_descriptor_t desc_ms_os: bLength, bDescriptorType,
\* qwSignature, bMS_VendorCode and the flags byte with the ContainerID bit
desc_ms_os ==
    <<18, TUSB_DESC_STRING>> \o MS_OS_DESCRIPTOR_SIGNATURE
      \o <<MS_OS_DESCRIPTOR_VENDORCODE>> \o <<2 * MS_OS_DESCRIPTOR_CONTAINERID_SUPPORT>>

\* desc_strings[]: the regular descriptors in STRID order (language 0x0409,
\* L"TinyUSB", L"TinyUSB X360", the default serial L"000000" in 16-bit code
\* units, each as the bLength bytes it announces), then the MS OS descriptor
desc_strings ==
    << <<4, TUSB_DESC_STRING>> \o tu_le(1033, 2),
       <<18, TUSB_DESC_STRING, 84, 0, 105, 0, 110, 0, 121, 0, 85, 0, 83, 0, 66, 0, 0, 0>>,
       <<28, TUSB_DESC_STRING, 84, 0, 105, 0, 110, 0, 121, 0, 85, 0, 83, 0, 66, 0,
         32, 0, 88, 0, 51, 0, 54, 0, 48, 0, 0, 0>>,
       <<14, TUSB_DESC_STRING, 48, 0, 48, 0, 48, 0, 48, 0, 48, 0, 48, 0>>,
       desc_ms_os >>

\* the NULL pointer a descriptor callback returns
NoDescriptor == <<>>

\* tud_descriptor_string_cb that looks the index up without the reordering
tud_descriptor_string_cb_NoExtraIndex(index) ==
    IF STRID_TOTAL <= index THEN NoDescriptor ELSE desc_strings[index + 1]

\* uint16_t const * tud_descriptor_string_cb(index, langid)
tud_descriptor_string_cb(index) ==
    IF MS_OS_DESCRIPTOR_STRING_INDEX = index THEN desc_strings[STRID_TOTAL + 1]
    ELSE IF STRID_TOTAL <= index THEN NoDescriptor
    ELSE desc_strings[index + 1]

\* the feature descriptors the application provides
CompatIdBlob == 300

CompatIdLen == 40

\* ms_os_control_xfer_cb that answers requests of every type
ms_os_control_xfer_cb_TypeIgnored(cb, rhport, stage, req, appret) ==
    LET unhandled == [ret |-> FALSE, ctrl |-> <<>>, calls |-> <<>>]
    IN IF MS_OS_DESCRIPTOR_VENDORCODE # req.bRequest THEN unhandled
       ELSE IF req.wIndex = MS_EXTENDED_COMPATID_DESCRIPTOR
       THEN IF "tud_descriptor_ms_compatid_cb" \in cb
            THEN IF CONTROL_STAGE_SETUP # stage
                 THEN [ret |-> TRUE, ctrl |-> <<>>, calls |-> <<>>]
                 ELSE [ret |-> TRUE,
                       ctrl |-> <<CtrlData(CompatIdBlob, ms_driver, CompatIdLen)>>,
                       calls |-> <<[cb |-> "tud_descriptor_ms_compatid_cb", args |-> <<>>]>>]
            ELSE unhandled
       ELSE IF req.wIndex = MS_EXTENDED_PROPERTIES_DESCRIPTOR
       THEN IF "tud_descriptor_ms_property_cb" \in cb
            THEN IF CONTROL_STAGE_SETUP # stage
                 THEN [ret |-> TRUE, ctrl |-> <<>>, calls |-> <<>>]
                 ELSE [ret |-> TRUE,
                       ctrl |-> <<CtrlData(appret.buf, <<>>, appret.len)>>,
                       calls |-> <<[cb |-> "tud_descriptor_ms_property_cb", args |-> <<>>]>>]
            ELSE unhandled
       ELSE unhandled

\* bool ms_os_control_xfer_cb(rhport, stage, request)
ms_os_control_xfer_cb(cb, rhport, stage, req, appret) ==
    LET unhandled == [ret |-> FALSE, ctrl |-> <<>>, calls |-> <<>>]
    IN IF TUSB_REQ_TYPE_VENDOR # req.type THEN unhandled
       ELSE IF MS_OS_DESCRIPTOR_VENDORCODE # req.bRequest THEN unhandled
       ELSE IF req.wIndex = MS_EXTENDED_COMPATID_DESCRIPTOR
       THEN IF "tud_descriptor_ms_compatid_cb" \in cb
            THEN IF CONTROL_STAGE_SETUP # stage
                 THEN [ret |-> TRUE, ctrl |-> <<>>, calls |-> <<>>]
                 ELSE [ret |-> TRUE,
                       ctrl |-> <<CtrlData(CompatIdBlob, ms_driver, CompatIdLen)>>,
                       calls |-> <<[cb |-> "tud_descriptor_ms_compatid_cb", args |-> <<>>]>>]
            ELSE unhandled
       ELSE IF req.wIndex = MS_EXTENDED_PROPERTIES_DESCRIPTOR
       THEN IF "tud_descriptor_ms_property_cb" \in cb
            THEN IF CONTROL_STAGE_SETUP # stage
                 THEN [ret |-> TRUE, ctrl |-> <<>>, calls |-> <<>>]
                 ELSE [ret |-> TRUE,
                       ctrl |-> <<CtrlData(appret.buf, <<>>, appret.len)>>,
                       calls |-> <<[cb |-> "tud_descriptor_ms_property_cb", args |-> <<>>]>>]
            ELSE unhandled
       ELSE unhandled

\* bool tud_vendor_control_xfer_cb(rhport, stage, request)
tud_vendor_control_xfer_cb(insts, cb, rhport, stage, req, appret) ==
    LET r1 == x360d_control_xfer_cb(insts, rhport, stage, req)
        r2 == ms_os_control_xfer_cb(cb, rhport, stage, req, appret)
    IN IF r1.ret THEN [x |-> r1.x, ret |-> TRUE, ctrl |-> r1.ctrl, calls |-> <<>>]
       ELSE [x |-> r1.x, ret |-> r2.ret, ctrl |-> r1.ctrl \o r2.ctrl, calls |-> r2.calls]

-----------------------------------------------------------------------------
(* HID control requests *)

\* chidd_standard_request_handler that does not look at bRequest
chidd_standard_request_handler_AnyRequest(insts, p, cb, stage, req, appret) ==
    LET itf == insts[p].itf_num
        no == [c |-> insts, ret |-> FALSE, ctrl |-> <<>>, calls |-> <<>>]
        ackOnly == [c |-> insts, ret |-> TRUE, ctrl |-> <<>>, calls |-> <<>>]
    IN IF tu_u16_high(req.wValue) = HID_DESC_TYPE_HID
       THEN IF CONTROL_STAGE_SETUP # stage THEN ackOnly
            ELSE IF insts[p].hid_descriptor = 0 THEN no
            ELSE [c |-> insts, ret |-> TRUE, calls |-> <<>>,
                  ctrl |-> <<CtrlData(insts[p].hid_descriptor, <<>>, SizeofHidDescriptorHid)>>]
       ELSE IF tu_u16_high(req.wValue) = HID_DESC_TYPE_REPORT
       THEN IF CONTROL_STAGE_SETUP # stage THEN ackOnly
            ELSE LET call == <<[cb |-> "chidd_descriptor_report_cb", args |-> <<itf>>]>>
                 IN IF ~(appret.buf # 0 /\ 0 < appret.len)
                    THEN [c |-> insts, ret |-> FALSE, ctrl |-> <<>>, calls |-> call]
                    ELSE [c |-> insts, ret |-> TRUE, calls |-> call,
                          ctrl |-> <<CtrlData(appret.buf, <<>>, appret.len)>>]
       ELSE IF tu_u16_high(req.wValue) = HID_DESC_TYPE_PHYSICAL
       THEN IF CONTROL_STAGE_SETUP # stage THEN ackOnly
            ELSE IF "chidd_descriptor_physical_cb" \notin cb THEN no
            ELSE LET call == <<[cb |-> "chidd_descriptor_physical_cb",
                                args |-> <<itf, tu_u16_low(req.wValue)>>]>>
                 IN IF ~(appret.buf # 0 /\ 0 < appret.len)
                    THEN [c |-> insts, ret |-> FALSE, ctrl |-> <<>>, calls |-> call]
                    ELSE [c |-> insts, ret |-> TRUE, calls |-> call,
                          ctrl |-> <<CtrlData(appret.buf, <<>>, appret.len)>>]
       ELSE no

\* static inline bool chidd_standard_request_handler(p_itf, stage, request)
chidd_standard_request_handler(insts, p, cb, stage, req, appret) ==
    LET itf == insts[p].itf_num
        no == [c |-> insts, ret |-> FALSE, ctrl |-> <<>>, calls |-> <<>>]
        ackOnly == [c |-> insts, ret |-> TRUE, ctrl |-> <<>>, calls |-> <<>>]
    IN IF TUSB_REQ_GET_DESCRIPTOR # req.bRequest THEN no
       ELSE IF tu_u16_high(req.wValue) = HID_DESC_TYPE_HID
       THEN IF CONTROL_STAGE_SETUP # stage THEN ackOnly
            ELSE IF insts[p].hid_descriptor = 0 THEN no
            ELSE [c |-> insts, ret |-> TRUE, calls |-> <<>>,
                  ctrl |-> <<CtrlData(insts[p].hid_descriptor, <<>>, SizeofHidDescriptorHid)>>]
       ELSE IF tu_u16_high(req.wValue) = HID_DESC_TYPE_REPORT
       THEN IF CONTROL_STAGE_SETUP # stage THEN ackOnly
            ELSE LET call == <<[cb |-> "chidd_descriptor_report_cb", args |-> <<itf>>]>>
                 IN IF ~(appret.buf # 0 /\ 0 < appret.len)
                    THEN [c |-> insts, ret |-> FALSE, ctrl |-> <<>>, calls |-> call]
                    ELSE [c |-> insts, ret |-> TRUE, calls |-> call,
                          ctrl |-> <<CtrlData(appret.buf, <<>>, appret.len)>>]
       ELSE IF tu_u16_high(req.wValue) = HID_DESC_TYPE_PHYSICAL
       THEN IF CONTROL_STAGE_SETUP # stage THEN ackOnly
            ELSE IF "chidd_descriptor_physical_cb" \notin cb THEN no
            ELSE LET call == <<[cb |-> "chidd_descriptor_physical_cb",
                                args |-> <<itf, tu_u16_low(req.wValue)>>]>>
                 IN IF ~(appret.buf # 0 /\ 0 < appret.len)
                    THEN [c |-> insts, ret |-> FALSE, ctrl |-> <<>>, calls |-> call]
                    ELSE [c |-> insts, ret |-> TRUE, calls |-> call,
                          ctrl |-> <<CtrlData(appret.buf, <<>>, appret.len)>>]
       ELSE no

\* chidd_class_specific_request_handler whose SET_IDLE stores the rate for any
\* report id
chidd_class_specific_request_handler_IdleForAnyId(insts, p, cb, stage, req, appret) ==
    LET itf == insts[p].itf_num
        id == tu_u16_low(req.wValue)
        hi == tu_u16_high(req.wValue)
        no == [c |-> insts, ret |-> FALSE, ctrl |-> <<>>, calls |-> <<>>]
        ackOnly == [c |-> insts, ret |-> TRUE, ctrl |-> <<>>, calls |-> <<>>]
    IN IF req.bRequest = HID_REQ_CONTROL_GET_REPORT
       THEN IF 1 # req.dir THEN no
            ELSE IF CONTROL_STAGE_SETUP # stage THEN ackOnly
            ELSE LET i1 == [insts EXCEPT ![p].transfer_in_buf = appret.buf]
                     call == <<[cb |-> "chidd_get_report_cb", args |-> <<itf, id, hi>>]>>
                 IN IF ~(appret.buf # 0 /\ 0 < appret.len)
                    THEN [c |-> i1, ret |-> FALSE, ctrl |-> <<>>, calls |-> call]
                    ELSE [c |-> i1, ret |-> TRUE, calls |-> call,
                          ctrl |-> <<CtrlData(appret.buf, <<>>, appret.len)>>]
       ELSE IF req.bRequest = HID_REQ_CONTROL_SET_REPORT
       THEN IF 0 # req.dir THEN no
            ELSE IF CONTROL_STAGE_SETUP = stage
            THEN IF "chidd_set_report_cb" \notin cb THEN no
                 ELSE LET i1 == [insts EXCEPT
                                   ![p].transfer_out_buf = appret.buf,
                                   ![p].transfer_out_size =
                                       IF appret.wrote THEN appret.len ELSE @]
                          call == <<[cb |-> "chidd_set_report_cb", args |-> <<itf, id, hi>>]>>
                      IN IF ~(i1[p].transfer_out_buf # 0 /\ 0 < i1[p].transfer_out_size)
                         THEN [c |-> i1, ret |-> FALSE, ctrl |-> <<>>, calls |-> call]
                         ELSE [c |-> i1, ret |-> TRUE, calls |-> call,
                               ctrl |-> <<CtrlData(i1[p].transfer_out_buf, <<>>,
                                                   i1[p].transfer_out_size)>>]
            ELSE IF CONTROL_STAGE_ACK = stage
            THEN IF "chidd_report_received_complete_cb" \notin cb THEN ackOnly
                 ELSE [c |-> insts, ret |-> TRUE, ctrl |-> <<>>,
                       calls |-> <<[cb |-> "chidd_report_received_complete_cb",
                                    args |-> <<itf, id, hi, insts[p].transfer_out_buf,
                                               req.wLength>>]>>]
            ELSE ackOnly
       ELSE IF req.bRequest = HID_REQ_CONTROL_GET_IDLE
       THEN IF 1 # req.dir THEN no
            ELSE IF CONTROL_STAGE_SETUP # stage THEN ackOnly
            ELSE IF 0 = id
            THEN [c |-> insts, ret |-> TRUE, calls |-> <<>>,
                  ctrl |-> <<CtrlData(0, <<insts[p].idle_rate>>, 1)>>]
            ELSE IF "chidd_get_idle_cb" \notin cb THEN no
            ELSE LET call == <<[cb |-> "chidd_get_idle_cb", args |-> <<itf, id>>]>>
                 IN IF ~appret.ok
                    THEN [c |-> insts, ret |-> FALSE, ctrl |-> <<>>, calls |-> call]
                    ELSE [c |-> insts, ret |-> TRUE, calls |-> call,
                          ctrl |-> <<CtrlData(0, <<appret.len % 256>>, 1)>>]
       ELSE IF req.bRequest = HID_REQ_CONTROL_SET_IDLE
       THEN IF 0 # req.dir THEN no
            ELSE IF CONTROL_STAGE_SETUP # stage THEN ackOnly
            ELSE LET i1 == [insts EXCEPT ![p].idle_rate = hi]
                     call == <<[cb |-> "chidd_set_idle_cb", args |-> <<itf, id, hi>>]>>
                 IN IF "chidd_set_idle_cb" \notin cb
                    THEN [c |-> i1, ret |-> FALSE, ctrl |-> <<CtrlStatus>>, calls |-> <<>>]
                    ELSE [c |-> i1, ret |-> appret.ok, ctrl |-> <<CtrlStatus>>,
                          calls |-> call]
       ELSE IF req.bRequest = HID_REQ_CONTROL_GET_PROTOCOL
       THEN IF 1 # req.dir THEN no
            ELSE IF CONTROL_STAGE_SETUP # stage THEN ackOnly
            ELSE [c |-> insts, ret |-> TRUE, calls |-> <<>>,
                  ctrl |-> <<CtrlData(0, <<insts[p].protocol_mode>>, 1)>>]
       ELSE IF req.bRequest = HID_REQ_CONTROL_SET_PROTOCOL
       THEN IF 0 # req.dir THEN no
            ELSE IF CONTROL_STAGE_SETUP # stage THEN ackOnly
            ELSE LET i1 == [insts EXCEPT ![p].protocol_mode = id]
                     call == <<[cb |-> "chidd_set_protocol_cb",
                                args |-> <<itf, req.wValue % 256>>]>>
                 IN IF "chidd_set_protocol_cb" \notin cb
                    THEN [c |-> i1, ret |-> FALSE, ctrl |-> <<CtrlStatus>>, calls |-> <<>>]
                    ELSE [c |-> i1, ret |-> appret.ok, ctrl |-> <<CtrlStatus>>,
                          calls |-> call]
       ELSE no

\* chidd_class_specific_request_handler whose GET_REPORT replies with whatever
\* chidd_get_report_cb returned
chidd_class_specific_request_handler_NullReplied(insts, p, cb, stage, req, appret) ==
    LET itf == insts[p].itf_num
        id == tu_u16_low(req.wValue)
        hi == tu_u16_high(req.wValue)
        no == [c |-> insts, ret |-> FALSE, ctrl |-> <<>>, calls |-> <<>>]
        ackOnly == [c |-> insts, ret |-> TRUE, ctrl |-> <<>>, calls |-> <<>>]
    IN IF req.bRequest = HID_REQ_CONTROL_GET_REPORT
       THEN IF 1 # req.dir THEN no
            ELSE IF CONTROL_STAGE_SETUP # stage THEN ackOnly
            ELSE LET i1 == [insts EXCEPT ![p].transfer_in_buf = appret.buf]
                     call == <<[cb |-> "chidd_get_report_cb", args |-> <<itf, id, hi>>]>>
                 IN [c |-> i1, ret |-> TRUE, calls |-> call,
                     ctrl |-> <<CtrlData(appret.buf, <<>>, appret.len)>>]
       ELSE IF req.bRequest = HID_REQ_CONTROL_SET_REPORT
       THEN IF 0 # req.dir THEN no
            ELSE IF CONTROL_STAGE_SETUP = stage
            THEN IF "chidd_set_report_cb" \notin cb THEN no
                 ELSE LET i1 == [insts EXCEPT
                                   ![p].transfer_out_buf = appret.buf,
                                   ![p].transfer_out_size =
                                       IF appret.wrote THEN appret.len ELSE @]
                          call == <<[cb |-> "chidd_set_report_cb", args |-> <<itf, id, hi>>]>>
                      IN IF ~(i1[p].transfer_out_buf # 0 /\ 0 < i1[p].transfer_out_size)
                         THEN [c |-> i1, ret |-> FALSE, ctrl |-> <<>>, calls |-> call]
                         ELSE [c |-> i1, ret |-> TRUE, calls |-> call,
                               ctrl |-> <<CtrlData(i1[p].transfer_out_buf, <<>>,
                                                   i1[p].transfer_out_size)>>]
            ELSE IF CONTROL_STAGE_ACK = stage
            THEN IF "chidd_report_received_complete_cb" \notin cb THEN ackOnly
                 ELSE [c |-> insts, ret |-> TRUE, ctrl |-> <<>>,
                       calls |-> <<[cb |-> "chidd_report_received_complete_cb",
                                    args |-> <<itf, id, hi, insts[p].transfer_out_buf,
                                               req.wLength>>]>>]
            ELSE ackOnly
       ELSE IF req.bRequest = HID_REQ_CONTROL_GET_IDLE
       THEN IF 1 # req.dir THEN no
            ELSE IF CONTROL_STAGE_SETUP # stage THEN ackOnly
            ELSE IF 0 = id
            THEN [c |-> insts, ret |-> TRUE, calls |-> <<>>,
                  ctrl |-> <<CtrlData(0, <<insts[p].idle_rate>>, 1)>>]
            ELSE IF "chidd_get_idle_cb" \notin cb THEN no
            ELSE LET call == <<[cb |-> "chidd_get_idle_cb", args |-> <<itf, id>>]>>
                 IN IF ~appret.ok
                    THEN [c |-> insts, ret |-> FALSE, ctrl |-> <<>>, calls |-> call]
                    ELSE [c |-> insts, ret |-> TRUE, calls |-> call,
                          ctrl |-> <<CtrlData(0, <<appret.len % 256>>, 1)>>]
       ELSE IF req.bRequest = HID_REQ_CONTROL_SET_IDLE
       THEN IF 0 # req.dir THEN no
            ELSE IF CONTROL_STAGE_SETUP # stage THEN ackOnly
            ELSE LET i1 == IF 0 = id THEN [insts EXCEPT ![p].idle_rate = hi] ELSE insts
                     call == <<[cb |-> "chidd_set_idle_cb", args |-> <<itf, id, hi>>]>>
                 IN IF "chidd_set_idle_cb" \notin cb
                    THEN [c |-> i1, ret |-> FALSE, ctrl |-> <<CtrlStatus>>, calls |-> <<>>]
                    ELSE [c |-> i1, ret |-> appret.ok, ctrl |-> <<CtrlStatus>>,
                          calls |-> call]
       ELSE IF req.bRequest = HID_REQ_CONTROL_GET_PROTOCOL
       THEN IF 1 # req.dir THEN no
            ELSE IF CONTROL_STAGE_SETUP # stage THEN ackOnly
            ELSE [c |-> insts, ret |-> TRUE, calls |-> <<>>,
                  ctrl |-> <<CtrlData(0, <<insts[p].protocol_mode>>, 1)>>]
       ELSE IF req.bRequest = HID_REQ_CONTROL_SET_PROTOCOL
       THEN IF 0 # req.dir THEN no
            ELSE IF CONTROL_STAGE_SETUP # stage THEN ackOnly
            ELSE LET i1 == [insts EXCEPT ![p].protocol_mode = id]
                     call == <<[cb |-> "chidd_set_protocol_cb",
                                args |-> <<itf, req.wValue % 256>>]>>
                 IN IF "chidd_set_protocol_cb" \notin cb
                    THEN [c |-> i1, ret |-> FALSE, ctrl |-> <<CtrlStatus>>, calls |-> <<>>]
                    ELSE [c |-> i1, ret |-> appret.ok, ctrl |-> <<CtrlStatus>>,
                          calls |-> call]
       ELSE no

\* static inline bool chidd_class_specific_request_handler(p_itf, stage, request)
chidd_class_specific_request_handler(insts, p, cb, stage, req, appret) ==
    LET itf == insts[p].itf_num
        id == tu_u16_low(req.wValue)
        hi == tu_u16_high(req.wValue)
        no == [c |-> insts, ret |-> FALSE, ctrl |-> <<>>, calls |-> <<>>]
        ackOnly == [c |-> insts, ret |-> TRUE, ctrl |-> <<>>, calls |-> <<>>]
    IN IF req.bRequest = HID_REQ_CONTROL_GET_REPORT
       THEN IF 1 # req.dir THEN no
            ELSE IF CONTROL_STAGE_SETUP # stage THEN ackOnly
            ELSE LET i1 == [insts EXCEPT ![p].transfer_in_buf = appret.buf]
                     call == <<[cb |-> "chidd_get_report_cb", args |-> <<itf, id, hi>>]>>
                 IN IF ~(appret.buf # 0 /\ 0 < appret.len)
                    THEN [c |-> i1, ret |-> FALSE, ctrl |-> <<>>, calls |-> call]
                    ELSE [c |-> i1, ret |-> TRUE, calls |-> call,
                          ctrl |-> <<CtrlData(appret.buf, <<>>, appret.len)>>]
       ELSE IF req.bRequest = HID_REQ_CONTROL_SET_REPORT
       THEN IF 0 # req.dir THEN no
            ELSE IF CONTROL_STAGE_SETUP = stage
            THEN IF "chidd_set_report_cb" \notin cb THEN no
                 ELSE LET i1 == [insts EXCEPT
                                   ![p].transfer_out_buf = appret.buf,
                                   ![p].transfer_out_size =
                                       IF appret.wrote THEN appret.len ELSE @]
                          call == <<[cb |-> "chidd_set_report_cb", args |-> <<itf, id, hi>>]>>
                      IN IF ~(i1[p].transfer_out_buf # 0 /\ 0 < i1[p].transfer_out_size)
                         THEN [c |-> i1, ret |-> FALSE, ctrl |-> <<>>, calls |-> call]
                         ELSE [c |-> i1, ret |-> TRUE, calls |-> call,
                               ctrl |-> <<CtrlData(i1[p].transfer_out_buf, <<>>,
                                                   i1[p].transfer_out_size)>>]
            ELSE IF CONTROL_STAGE_ACK = stage
            THEN IF "chidd_report_received_complete_cb" \notin cb THEN ackOnly
                 ELSE [c |-> insts, ret |-> TRUE, ctrl |-> <<>>,
                       calls |-> <<[cb |-> "chidd_report_received_complete_cb",
                                    args |-> <<itf, id, hi, insts[p].transfer_out_buf,
                                               req.wLength>>]>>]
            ELSE ackOnly
       ELSE IF req.bRequest = HID_REQ_CONTROL_GET_IDLE
       THEN IF 1 # req.dir THEN no
            ELSE IF CONTROL_STAGE_SETUP # stage THEN ackOnly
            ELSE IF 0 = id
            THEN [c |-> insts, ret |-> TRUE, calls |-> <<>>,
                  ctrl |-> <<CtrlData(0, <<insts[p].idle_rate>>, 1)>>]
            ELSE IF "chidd_get_idle_cb" \notin cb THEN no
            ELSE LET call == <<[cb |-> "chidd_get_idle_cb", args |-> <<itf, id>>]>>
                 IN IF ~appret.ok
                    THEN [c |-> insts, ret |-> FALSE, ctrl |-> <<>>, calls |-> call]
                    ELSE [c |-> insts, ret |-> TRUE, calls |-> call,
                          ctrl |-> <<CtrlData(0, <<appret.len % 256>>, 1)>>]
       ELSE IF req.bRequest = HID_REQ_CONTROL_SET_IDLE
       THEN IF 0 # req.dir THEN no
            ELSE IF CONTROL_STAGE_SETUP # stage THEN ackOnly
            ELSE LET i1 == IF 0 = id THEN [insts EXCEPT ![p].idle_rate = hi] ELSE insts
                     call == <<[cb |-> "chidd_set_idle_cb", args |-> <<itf, id, hi>>]>>
                 IN IF "chidd_set_idle_cb" \notin cb
                    THEN [c |-> i1, ret |-> FALSE, ctrl |-> <<CtrlStatus>>, calls |-> <<>>]
                    ELSE [c |-> i1, ret |-> appret.ok, ctrl |-> <<CtrlStatus>>,
                          calls |-> call]
       ELSE IF req.bRequest = HID_REQ_CONTROL_GET_PROTOCOL
       THEN IF 1 # req.dir THEN no
            ELSE IF CONTROL_STAGE_SETUP # stage THEN ackOnly
            ELSE [c |-> insts, ret |-> TRUE, calls |-> <<>>,
                  ctrl |-> <<CtrlData(0, <<insts[p].protocol_mode>>, 1)>>]
       ELSE IF req.bRequest = HID_REQ_CONTROL_SET_PROTOCOL
       THEN IF 0 # req.dir THEN no
            ELSE IF CONTROL_STAGE_SETUP # stage THEN ackOnly
            ELSE LET i1 == [insts EXCEPT ![p].protocol_mode = id]
                     call == <<[cb |-> "chidd_set_protocol_cb",
                                args |-> <<itf, req.wValue % 256>>]>>
                 IN IF "chidd_set_protocol_cb" \notin cb
                    THEN [c |-> i1, ret |-> FALSE, ctrl |-> <<CtrlStatus>>, calls |-> <<>>]
                    ELSE [c |-> i1, ret |-> appret.ok, ctrl |-> <<CtrlStatus>>,
                          calls |-> call]
       ELSE no

\* chidd_control_xfer_cb that does not look at the recipient of the request.
chidd_control_xfer_cb_AnyRecipient(insts, cb, rhport, stage, req, appret) ==
    LET p == chidd_get_instance_by_itf(insts, req.wIndex % 256)
        unhandled == [c |-> insts, ret |-> FALSE, ctrl |-> <<>>, calls |-> <<>>]
    IN IF FALSE THEN unhandled
       ELSE IF p = 0 THEN unhandled
       ELSE IF rhport # insts[p].rhport THEN unhandled
       ELSE IF insts[p].itf_num # req.wIndex THEN unhandled
       ELSE IF req.type = TUSB_REQ_TYPE_STANDARD
       THEN chidd_standard_request_handler(insts, p, cb, stage, req, appret)
       ELSE IF req.type = TUSB_REQ_TYPE_CLASS
       THEN chidd_class_specific_request_handler(insts, p, cb, stage, req, appret)
       ELSE unhandled

\* bool chidd_control_xfer_cb(rhport, stage, request)
chidd_control_xfer_cb(insts, cb, rhport, stage, req, appret) ==
    LET p == chidd_get_instance_by_itf(insts, req.wIndex % 256)
        unhandled == [c |-> insts, ret |-> FALSE, ctrl |-> <<>>, calls |-> <<>>]
    IN IF TUSB_REQ_RCPT_INTERFACE # req.rcpt THEN unhandled
       ELSE IF p = 0 THEN unhandled
       ELSE IF rhport # insts[p].rhport THEN unhandled
       ELSE IF insts[p].itf_num # req.wIndex THEN unhandled
       ELSE IF req.type = TUSB_REQ_TYPE_STANDARD
       THEN chidd_standard_request_handler(insts, p, cb, stage, req, appret)
       ELSE IF req.type = TUSB_REQ_TYPE_CLASS
       THEN chidd_class_specific_request_handler(insts, p, cb, stage, req, appret)
       ELSE unhandled

\* chidd_get_protocol that reports the protocol mode set by chidd_open
chidd_get_protocol_ModeAtOpen(insts, itf_num) ==
    LET p == chidd_get_instance_by_itf(insts, itf_num)
    IN IF p = 0 THEN [ret |-> FALSE, mode |-> 0]
       ELSE [ret |-> TRUE, mode |-> HID_PROTOCOL_REPORT]

\* bool chidd_get_protocol(itf_num, mode)
chidd_get_protocol(insts, itf_num) ==
    LET p == chidd_get_instance_by_itf(insts, itf_num)
    IN IF p = 0 THEN [ret |-> FALSE, mode |-> 0]
       ELSE [ret |-> TRUE, mode |-> insts[p].protocol_mode]

-----------------------------------------------------------------------------
(* Inputs *)

RhPorts == {0, 1}

BOARD_TUD_RHPORT == 0

\* the port the stack runs on, and the other one
BoardPort == {BOARD_TUD_RHPORT}

OtherPorts == RhPorts \ BoardPort

Itfs == {0, 1}

\* interface numbers the application passes to the API: the first interface
\* of each example, and a number that no interface block carries
ApiItfs == {0, 2}

EpDesc(a, t) == [addr |-> a, xfer |-> t]

ItfDesc(itf, cls, sub, proto, ctype, hid, eps) ==
    [itf |-> itf, cls |-> cls, sub |-> sub, proto |-> proto, ctype |-> ctype,
     hid |-> hid, eps |-> eps]

X360Desc(itf, eps) ==
    ItfDesc(itf, X360_CLASS_CONTROL, X360_SUBCLASS_CONTROL, X360_PROTOCOL_CONTROL,
            X360_CLASS_SPECIFIC_TYPE, 0, eps)

HidDesc(itf, eps) == ItfDesc(itf, TUSB_CLASS_HID, 0, 0, HID_DESC_TYPE_HID, itf + 1, eps)

IntPair(i, o) == <<EpDesc(i, TUSB_XFER_INTERRUPT), EpDesc(o, TUSB_XFER_INTERRUPT)>>

\* the interface blocks of the two examples' configuration descriptors
X360ExampleDescs == {X360Desc(0, IntPair(129, 1))}

HidExampleDescs == {HidDesc(0, IntPair(129, 1)), HidDesc(1, IntPair(130, 2))}

\* the example's keyboard interface alone
HidKeyboardDescs == {HidDesc(0, IntPair(129, 1))}

\* interface blocks offered to x360d_open: the example's interface, a second
\* gamepad, one-endpoint variants and malformed or foreign blocks
X360Descs ==
    X360ExampleDescs \cup
    { X360Desc(1, IntPair(130, 2)),
      X360Desc(1, <<EpDesc(129, TUSB_XFER_INTERRUPT)>>),
      X360Desc(1, <<EpDesc(1, TUSB_XFER_INTERRUPT)>>),
      X360Desc(0, <<EpDesc(129, TUSB_XFER_INTERRUPT), EpDesc(1, TUSB_XFER_BULK)>>),
      ItfDesc(0, X360_CLASS_CONTROL, X360_SUBCLASS_CONTROL, X360_PROTOCOL_CONTROL, 5, 0,
              IntPair(129, 1)),
      ItfDesc(0, X360_CLASS_CONTROL, X360_SUBCLASS_CONTROL, 2, X360_CLASS_SPECIFIC_TYPE, 0,
              IntPair(129, 1)),
      HidDesc(0, IntPair(129, 1)) }

\* interface blocks offered to chidd_open: the example's keyboard and
\* configuration interfaces, one-endpoint variants and malformed or foreign blocks
HidDescs ==
    HidExampleDescs \cup
    { HidDesc(1, <<EpDesc(130, TUSB_XFER_INTERRUPT)>>),
      HidDesc(1, <<EpDesc(2, TUSB_XFER_INTERRUPT)>>),
      HidDesc(0, <<EpDesc(129, TUSB_XFER_INTERRUPT), EpDesc(1, TUSB_XFER_BULK)>>),
      ItfDesc(0, TUSB_CLASS_HID, 1, 1, 5, 1, IntPair(129, 1)),
      ItfDesc(1, TUSB_CLASS_HID, 1, 1, HID_DESC_TYPE_HID, 2, IntPair(129, 1)),
      X360Desc(0, IntPair(129, 1)) }

\* max_len is the expected block length plus one of these
LenDeltas == {-1, 0}

\* max_len is exactly the block length
ExactLen == {0}

X360DrvLen(d) ==
    SizeofDescInterface + SizeofX360DescSpecificClass + Len(d.eps) * SizeofDescEndpoint

HidDrvLen(d) ==
    SizeofDescInterface + SizeofHidDescriptorHid + Len(d.eps) * SizeofDescEndpoint

DescEps(d) == {d.eps[k].addr : k \in 1..Len(d.eps)}

\* x360_controls_t values: nothing pressed, A alone, and a value with no zero byte
Controls ==
    { ControlsOf(0, Zeros(16)),
      ControlsOf(2 ^ X360_BUTTON_A, Zeros(16)),
      ControlsOf(33792 + 255, [k \in 1..16 |-> 16 * k + 1]) }

\* what the host sends on the X360 OUT endpoint
HostMsgs ==
    { <<0, 8, 0, 128, 64, 0, 0, 0>>,
      <<1, 3, 6>>, <<1, 3, 0>>,
      <<0, 3, 6>> }

\* messages whose header length byte is not the number of bytes sent: a
\* rumble that announces 3 bytes and an LED message that announces 8
HostMsgsBadLength ==
    { <<0, 3, 0, 128, 64, 0, 0, 0>>,
      <<1, 8, 6>> }

AllHostMsgs == HostMsgs \cup HostMsgsBadLength

\* a control request as the stack hands it to a driver
Req(dir, type, rcpt, bRequest, wValue, wIndex, wLength) ==
    [dir |-> dir, type |-> type, rcpt |-> rcpt, bRequest |-> bRequest,
     wValue |-> wValue, wIndex |-> wIndex, wLength |-> wLength]

\* vendor-type traffic of the X360 application: request 1 with every recipient,
\* handle and interface index, the MS OS feature requests, and foreign requests
X360Reqs ==
    { Req(1, TUSB_REQ_TYPE_VENDOR, rcpt, 1, wValue, wIndex, 20) :
        rcpt \in {TUSB_REQ_RCPT_DEVICE, TUSB_REQ_RCPT_INTERFACE, TUSB_REQ_RCPT_ENDPOINT},
        wValue \in {X360_HANDLE_RUMBLE, X360_HANDLE_CONTROL, 1},
        wIndex \in {0, 1, 256} }
    \cup { Req(1, TUSB_REQ_TYPE_VENDOR, TUSB_REQ_RCPT_DEVICE,
               MS_OS_DESCRIPTOR_VENDORCODE, 0, wIndex, 40) :
             wIndex \in {MS_EXTENDED_COMPATID_DESCRIPTOR,
                         MS_EXTENDED_PROPERTIES_DESCRIPTOR, 6} }
    \cup { Req(1, TUSB_REQ_TYPE_CLASS, TUSB_REQ_RCPT_INTERFACE, 1, 0, 0, 20),
           Req(1, TUSB_REQ_TYPE_CLASS, TUSB_REQ_RCPT_DEVICE,
               MS_OS_DESCRIPTOR_VENDORCODE, 0, MS_EXTENDED_COMPATID_DESCRIPTOR, 40),
           Req(1, TUSB_REQ_TYPE_VENDOR, TUSB_REQ_RCPT_INTERFACE, 2, 0, 0, 20) }

\* string indexes: every value of the uint8_t parameter
StringIndexes == 0..255

\* the MS OS feature requests of the host at enumeration
MsOsFeatureReqs == {q \in X360Reqs : q.bRequest = MS_OS_DESCRIPTOR_VENDORCODE}

\* the requests followed through their DATA and ACK stages
X360StagedReqs == {q \in X360Reqs : q.wValue # 1 /\ q.wIndex # 1 /\ q.wIndex # 6}

\* control traffic for the HID driver: the six class requests and an unknown
\* one, in the direction the driver expects ...
HidClassReqs ==
    { Req(IF b \in {HID_REQ_CONTROL_SET_REPORT, HID_REQ_CONTROL_SET_IDLE,
                    HID_REQ_CONTROL_SET_PROTOCOL} THEN 0 ELSE 1,
          TUSB_REQ_TYPE_CLASS, TUSB_REQ_RCPT_INTERFACE, b, wValue, 0, 1) :
        b \in {HID_REQ_CONTROL_GET_REPORT, HID_REQ_CONTROL_GET_IDLE,
               HID_REQ_CONTROL_GET_PROTOCOL, HID_REQ_CONTROL_SET_REPORT,
               HID_REQ_CONTROL_SET_IDLE, HID_REQ_CONTROL_SET_PROTOCOL, 12},
        wValue \in {0, 1, 258, 32000} }

\* ... the same requests in the other direction, GET_DESCRIPTOR for each
\* descriptor type, and requests that are not for a bound HID interface
HidOtherReqs ==
    { [r EXCEPT !.dir = 1 - @] : r \in {q \in HidClassReqs : q.wValue = 0} }
    \cup { Req(1, TUSB_REQ_TYPE_STANDARD, TUSB_REQ_RCPT_INTERFACE,
               TUSB_REQ_GET_DESCRIPTOR, wValue, 0, 9) :
             wValue \in {256 * HID_DESC_TYPE_HID, 256 * HID_DESC_TYPE_REPORT,
                         256 * HID_DESC_TYPE_PHYSICAL, 256 * 36} }
    \cup { Req(1, TUSB_REQ_TYPE_STANDARD, TUSB_REQ_RCPT_INTERFACE, 0,
               256 * HID_DESC_TYPE_HID, 0, 9),
           Req(1, TUSB_REQ_TYPE_CLASS, TUSB_REQ_RCPT_DEVICE,
               HID_REQ_CONTROL_GET_PROTOCOL, 0, 0, 1),
           Req(1, TUSB_REQ_TYPE_VENDOR, TUSB_REQ_RCPT_INTERFACE,
               HID_REQ_CONTROL_GET_PROTOCOL, 0, 0, 1),
           Req(1, TUSB_REQ_TYPE_CLASS, TUSB_REQ_RCPT_INTERFACE,
               HID_REQ_CONTROL_GET_PROTOCOL, 0, 2, 1),
           Req(1, TUSB_REQ_TYPE_CLASS, TUSB_REQ_RCPT_INTERFACE,
               HID_REQ_CONTROL_GET_PROTOCOL, 0, 256, 1) }

HidReqs == HidClassReqs \cup HidOtherReqs

\* the requests followed through their DATA and ACK stages
HidStagedReqs ==
    {q \in HidClassReqs : q.wValue = 0}
    \cup {q \in HidOtherReqs : q.type = TUSB_REQ_TYPE_STANDARD /\ q.bRequest # 0}

ControlStages == {CONTROL_STAGE_SETUP, CONTROL_STAGE_DATA, CONTROL_STAGE_ACK}

SetupStage == {CONTROL_STAGE_SETUP}

LaterStages == ControlStages \ SetupStage

\* the control requests that share an instance's buffers with the data path
X360DataReqs ==
    { Req(1, TUSB_REQ_TYPE_VENDOR, TUSB_REQ_RCPT_INTERFACE, 1, X360_HANDLE_RUMBLE, 0, 20),
      Req(1, TUSB_REQ_TYPE_VENDOR, TUSB_REQ_RCPT_DEVICE, 1, X360_HANDLE_SERIAL, 0, 20) }

HidDataReqs ==
    { Req(1, TUSB_REQ_TYPE_CLASS, TUSB_REQ_RCPT_INTERFACE,
          HID_REQ_CONTROL_GET_REPORT, 0, 0, 1),
      Req(0, TUSB_REQ_TYPE_CLASS, TUSB_REQ_RCPT_INTERFACE,
          HID_REQ_CONTROL_SET_REPORT, 0, 0, 1) }

\* the requests that read and write protocol_mode, next to requests that
\* read the idle rate and store an OUT buffer
HidProtocolReqs ==
    { Req(0, TUSB_REQ_TYPE_CLASS, TUSB_REQ_RCPT_INTERFACE,
          HID_REQ_CONTROL_SET_PROTOCOL, wValue, 0, 0) : wValue \in {0, 1} }
    \cup { Req(1, TUSB_REQ_TYPE_CLASS, TUSB_REQ_RCPT_INTERFACE,
                HID_REQ_CONTROL_GET_PROTOCOL, 0, 0, 1),
            Req(1, TUSB_REQ_TYPE_CLASS, TUSB_REQ_RCPT_INTERFACE,
                HID_REQ_CONTROL_GET_IDLE, 0, 0, 1),
            Req(0, TUSB_REQ_TYPE_CLASS, TUSB_REQ_RCPT_INTERFACE,
                HID_REQ_CONTROL_SET_REPORT, 0, 0, 1) }

\* idle rates in units of 4 ms: off, the shortest, 500 ms, and the two with the
\* top bit set
IdleRates == {0, 1, 125, 128, 255}

\* SET_IDLE and GET_IDLE for all reports (report id 0) and for report 1
HidIdleReqs ==
    { Req(0, TUSB_REQ_TYPE_CLASS, TUSB_REQ_RCPT_INTERFACE,
          HID_REQ_CONTROL_SET_IDLE, 256 * rate + id, 0, 0) :
        rate \in IdleRates, id \in {0, 1} }
    \cup { Req(1, TUSB_REQ_TYPE_CLASS, TUSB_REQ_RCPT_INTERFACE,
                HID_REQ_CONTROL_GET_IDLE, id, 0, 1) : id \in {0, 1} }

\* what an application callback hands back: a buffer, a length or value,
\* its boolean result, and whether it wrote the length at all
NoAppRet == [buf |-> 0, len |-> 0, ok |-> FALSE, wrote |-> FALSE]

AppRets ==
    { NoAppRet,
      [buf |-> 1, len |-> 1, ok |-> TRUE, wrote |-> TRUE],
      [buf |-> 1, len |-> 0, ok |-> FALSE, wrote |-> TRUE],
      [buf |-> 0, len |-> 1, ok |-> TRUE, wrote |-> FALSE] }

\* the application's report buffers; 0 is the NULL pointer
AppBufs == {1, 2}

XferLens == 0..MaxXferLen

\* an application whose hooks call nothing
NoRearms == {NoRearm}

\* the hook re-arms the interface it was called for, or does nothing

Rearms == NoRearms \cup {[do |-> TRUE, itf |-> i, buf |-> 1, len |-> 1] : i \in Itfs}

X360Cbs == {"x360d_report_issue_cb", "x360d_report_complete_cb",
            "x360d_received_led_cb", "x360d_received_rumble_cb",
            "tud_descriptor_ms_compatid_cb", "tud_descriptor_ms_property_cb"}

HidCbs == {"chidd_out_endpoint_opened_cb", "chidd_descriptor_physical_cb",
           "chidd_set_report_cb", "chidd_get_idle_cb", "chidd_set_idle_cb",
           "chidd_set_protocol_cb", "chidd_report_sent_complete_cb",
           "chidd_report_received_complete_cb", "chidd_report_issue_cb"}

\* the callbacks the two example applications define
X360ExampleCbs == {"tud_descriptor_ms_compatid_cb"}

HidExampleCbs == {"chidd_out_endpoint_opened_cb", "chidd_set_report_cb",
                  "chidd_get_idle_cb", "chidd_set_idle_cb",
                  "chidd_report_sent_complete_cb", "chidd_report_received_complete_cb"}

-----------------------------------------------------------------------------
(* State machine *)

Call(op, a, ret, calls, ctrl) ==
    [op |-> op, a |-> a, ret |-> ret, calls |-> calls, ctrl |-> ctrl]

Init ==
    /\ app \in {"x360", "hid"}
    /\ cbs \in IF app = "x360" THEN {X360ExampleCbs, X360Cbs}
               ELSE {HidExampleCbs, HidCbs}
    /\ x360 = [i \in X360Idx |-> X360Zero]
    /\ chidd = [i \in ChiddIdx |-> ChiddZero]
    /\ ep = [a \in EpAddrs |-> EpIdle]
    /\ last = Call("init", <<>>, TRUE, <<>>, <<>>)
    /\ outHist = [i \in X360Idx |-> <<>>]
    /\ offered = {}
    /\ reoffer = FALSE
    /\ ctl = <<>>

\* bus reset: the stack closes every endpoint and resets the driver
Reset(Rs) ==
    \E rhport \in Rs :
        /\ x360' = x360d_reset(x360)
        /\ chidd' = chidd_reset(chidd)
        /\ ep' = [a \in EpAddrs |-> EpIdle]
        /\ last' = Call("reset", [rhport |-> rhport], TRUE, <<>>, <<>>)
        /\ outHist' = [i \in X360Idx |-> <<>>]
        /\ offered' = {}
        /\ reoffer' = FALSE
        /\ ctl' = <<>>
        /\ UNCHANGED <<app, cbs>>

Offer(d) ==
    /\ offered' = offered \cup DescEps(d)
    /\ reoffer' = (reoffer \/ (DescEps(d) \cap offered # {}))

\* the stack walks a configuration descriptor once between two resets:
\* with `once', no endpoint address is offered a second time
MayOffer(d, once) == once => DescEps(d) \cap offered = {}

X360Open(Ds, Rs, Deltas, once) ==
    \E d \in Ds, rhport \in Rs, delta \in Deltas :
        LET max_len == X360DrvLen(d) + delta
            r == x360d_open(x360, ep, rhport, d, max_len)
        IN /\ app = "x360"
           /\ MayOffer(d, once)
           /\ x360' = r.x
           /\ ep' = r.ep
           /\ last' = Call("x360d_open",
                           [rhport |-> rhport, d |-> d, max_len |-> max_len,
                            drv_len |-> X360DrvLen(d)], r.ret, <<>>, <<>>)
           /\ Offer(d)
           /\ UNCHANGED <<app, cbs, chidd, outHist, ctl>>

X360Report ==
    \E itf \in ApiItfs, report \in Controls :
        /\ app = "x360"
        /\ \E r \in {x360d_n_report(x360, ep, itf, report)},
              p \in {x360_get_instance_by_itf(x360, itf)} :
               /\ x360' = r.x
               /\ ep' = r.ep
               /\ last' = Call("x360d_n_report",
                               [itf |-> itf, report |-> report, p |-> p,
                                busy |-> (p # 0 /\ ep[x360[p].ep_in].busy),
                                claimed |-> (p # 0 /\ ep[x360[p].ep_in].claimed)],
                               r.ret, <<>>, <<>>)
               /\ UNCHANGED <<app, cbs, chidd, outHist, offered, reoffer, ctl>>

\* a transfer on an X360 endpoint completes: the stack releases the endpoint,
\* the hardware has written the host's message, and the driver is called back
X360XferComplete(Rs, Msgs) ==
    \E a \in EpAddrs \ {0}, result \in {XFER_RESULT_SUCCESS, XFER_RESULT_FAILED},
       rhport \in Rs, msg \in Msgs \cup {<<>>} :
        /\ app = "x360"
        /\ ep[a].queue # <<>>
        /\ (a < TUSB_DIR_IN_MASK \/ msg = <<>>)
        /\ (result = XFER_RESULT_SUCCESS \/ msg = <<>>)
        /\ LET xf == Head(ep[a].queue)
               isOut == a < TUSB_DIR_IN_MASK
               ok == result = XFER_RESULT_SUCCESS
               n == IF ~ok THEN 0 ELSE IF isOut THEN Len(msg) ELSE xf.len
           IN \E x1 \in {[i \in X360Idx |->
                            IF ok /\ isOut /\ xf.buf = X360OutBuf(i)
                            THEN [x360[i] EXCEPT
                                    !.transfer_out_buf = MemCpy(@, 0, msg, Len(msg))]
                            ELSE x360[i]]},
                 e1 \in {[ep EXCEPT ![a].busy = FALSE, ![a].claimed = FALSE,
                                    ![a].queue = Tail(@)]} :
                \E r \in {x360d_xfer_cb(x1, e1, cbs, rhport, a, result, n)},
                   p \in {x360_get_instance_by_ep(x1, a)} :
                    LET dispatched == p # 0 /\ rhport = x1[p].rhport /\ a = x1[p].ep_out
                                      /\ a # x1[p].ep_in
                    IN /\ x360' = r.x
                       /\ ep' = r.ep
                       /\ last' = Call("x360d_xfer_cb",
                                       [rhport |-> rhport, ep_addr |-> a,
                                        result |-> result, n |-> n, msg |-> msg,
                                        p |-> p, armed_at_cb |-> r.at_cb[a].busy],
                                       r.ret, r.calls, <<>>)
                       /\ outHist' =
                            IF ~dispatched THEN outHist
                            ELSE IF ~ok THEN [outHist EXCEPT ![p] = <<>>]
                            ELSE [outHist EXCEPT ![p] =
                                    LET h == Append(@, [msg |-> msg,
                                                        before |-> x1[p].led,
                                                        calls |-> r.calls])
                                    IN IF Len(h) > 2 THEN Tail(h) ELSE h]
                       /\ UNCHANGED <<app, cbs, chidd, offered, reoffer, ctl>>

HidOpen(Ds, Rs, Deltas, Hooks, once) ==
    \E d \in Ds, rhport \in Rs, delta \in Deltas, rearm \in Hooks :
        LET max_len == HidDrvLen(d) + delta
            r == chidd_open(chidd, ep, cbs, rhport, d, max_len, rearm)
        IN /\ app = "hid"
           /\ MayOffer(d, once)
           /\ (r.calls # <<>> \/ rearm = NoRearm)
           /\ (rearm.do => rearm.itf = d.itf)
           /\ chidd' = r.c
           /\ ep' = r.ep
           /\ last' = Call("chidd_open",
                           [rhport |-> rhport, d |-> d, max_len |-> max_len,
                            drv_len |-> HidDrvLen(d), rearm |-> rearm],
                           r.ret, r.calls, <<>>)
           /\ Offer(d)
           /\ UNCHANGED <<app, cbs, x360, outHist, ctl>>

HidSend ==
    \E itf \in ApiItfs, report \in {0} \cup AppBufs, len \in XferLens :
        LET r == chidd_send_report(chidd, ep, itf, report, len)
            p == chidd_get_instance_by_itf(chidd, itf)
        IN /\ app = "hid"
           /\ chidd' = r.c
           /\ ep' = r.ep
           /\ last' = Call("chidd_send_report",
                           [itf |-> itf, report |-> report, len |-> len, p |-> p,
                            busy |-> (p # 0 /\ ep[chidd[p].ep_in].busy),
                            claimed |-> (p # 0 /\ ep[chidd[p].ep_in].claimed)],
                           r.ret, <<>>, <<>>)
           /\ UNCHANGED <<app, cbs, x360, outHist, offered, reoffer, ctl>>

HidReceive ==
    \E itf \in ApiItfs, report \in {0} \cup AppBufs, len \in XferLens :
        LET r == chidd_receive_report(chidd, ep, itf, report, len)
            p == chidd_get_instance_by_itf(chidd, itf)
        IN /\ app = "hid"
           /\ chidd' = r.c
           /\ ep' = r.ep
           /\ last' = Call("chidd_receive_report",
                           [itf |-> itf, report |-> report, len |-> len, p |-> p],
                           r.ret, <<>>, <<>>)
           /\ UNCHANGED <<app, cbs, x360, outHist, offered, reoffer, ctl>>

\* a transfer on a HID endpoint completes
HidXferComplete(Rs, Hooks) ==
    \E a \in EpAddrs \ {0}, result \in {XFER_RESULT_SUCCESS, XFER_RESULT_FAILED},
       rhport \in Rs, rearm \in Hooks :
        LET xf == Head(ep[a].queue)
            n == IF result = XFER_RESULT_SUCCESS THEN xf.len ELSE 0
            e1 == [ep EXCEPT ![a].busy = FALSE, ![a].claimed = FALSE, ![a].queue = Tail(@)]
            r == chidd_xfer_cb(chidd, e1, cbs, rhport, a, result, n, rearm)
            p == chidd_get_instance_by_ep(chidd, a)
            hooked == \E k \in 1..Len(r.calls) :
                          r.calls[k].cb \in {"chidd_report_issue_cb",
                                             "chidd_report_received_complete_cb"}
        IN /\ app = "hid"
           /\ ep[a].queue # <<>>
           /\ (hooked \/ rearm = NoRearm)
           /\ (rearm.do => p # 0 /\ rearm.itf = chidd[p].itf_num)
           /\ chidd' = r.c
           /\ ep' = r.ep
           /\ last' = Call("chidd_xfer_cb",
                           [rhport |-> rhport, ep_addr |-> a, result |-> result,
                            n |-> n, xf |-> xf, rearm |-> rearm, p |-> p],
                           r.ret, r.calls, <<>>)
           /\ UNCHANGED <<app, cbs, x360, outHist, offered, reoffer, ctl>>

\* a vendor request reaches the X360 application's tud_vendor_control_xfer_cb
X360Control(Rs, Stages, Reqs) ==
    \E rhport \in Rs, stage \in Stages, req \in Reqs, appret \in AppRets :
        /\ app = "x360"
        /\ \E r \in {tud_vendor_control_xfer_cb(x360, cbs, rhport, stage, req, appret)},
              x \in {x360d_control_xfer_cb(x360, rhport, stage, req)},
              m \in {ms_os_control_xfer_cb(cbs, rhport, stage, req, appret)} :
               /\ (appret = NoAppRet
                   \/ \E k \in 1..Len(r.calls) :
                         r.calls[k].cb = "tud_descriptor_ms_property_cb")
               /\ x360' = r.x
               /\ last' = Call("tud_vendor_control_xfer_cb",
                               [rhport |-> rhport, stage |-> stage, req |-> req,
                                appret |-> appret,
                                p |-> x360_get_instance_by_itf(x360, req.wIndex % 256),
                                x360d |-> [ret |-> x.ret, ctrl |-> x.ctrl],
                                ms_os |-> IF x.ret THEN [called |-> FALSE, ret |-> FALSE,
                                                         ctrl |-> <<>>]
                                          ELSE [called |-> TRUE, ret |-> m.ret,
                                                ctrl |-> m.ctrl]],
                               r.ret, r.calls, r.ctrl)
               /\ UNCHANGED <<app, cbs, chidd, ep, outHist, offered, reoffer, ctl>>

\* the host asks for a string descriptor of the gamepad
X360GetString(Idx) ==
    \E index \in Idx :
        /\ app = "x360"
        /\ \E d \in {tud_descriptor_string_cb(index)} :
               last' = Call("tud_descriptor_string_cb",
                            [index |-> index, desc |-> d], d # NoDescriptor, <<>>, <<>>)
        /\ UNCHANGED <<app, cbs, x360, chidd, ep, outHist, offered, reoffer, ctl>>

\* a control request for an interface reaches the HID driver
HidControl(Rs, Stages, Reqs) ==
    \E rhport \in Rs, stage \in Stages, req \in Reqs, appret \in AppRets :
        /\ app = "hid"
        /\ \E r \in {chidd_control_xfer_cb(chidd, cbs, rhport, stage, req, appret)} :
               /\ (appret = NoAppRet \/ r.calls # <<>>)
               /\ chidd' = r.c
               /\ last' = Call("chidd_control_xfer_cb",
                               [rhport |-> rhport, stage |-> stage, req |-> req,
                                appret |-> appret,
                                p |-> chidd_get_instance_by_itf(chidd, req.wIndex % 256)],
                               r.ret, r.calls, r.ctrl)
               /\ UNCHANGED <<app, cbs, x360, ep, outHist, offered, reoffer, ctl>>

\* the stack carries one control transfer for the HID driver through its
\* stages: SETUP, then, while the driver reports the request handled, DATA
\* and ACK; a stage the driver refuses stalls the transfer
HidControlTransfer(Rs, Reqs) ==
    \E rhport \in Rs, req \in Reqs, appret \in AppRets :
        LET idle == ctl = <<>>
            stage == IF idle THEN CONTROL_STAGE_SETUP ELSE ctl[1].next
            rq == IF idle THEN req ELSE ctl[1].req
        IN /\ app = "hid"
           /\ IF idle THEN TRUE ELSE req = ctl[1].req /\ rhport = ctl[1].rhport
           /\ \E r \in {chidd_control_xfer_cb(chidd, cbs, rhport, stage, rq, appret)} :
                /\ (appret = NoAppRet \/ r.calls # <<>>)
                /\ chidd' = r.c
                /\ last' = Call("chidd_control_xfer_cb",
                                [rhport |-> rhport, stage |-> stage, req |-> rq,
                                 appret |-> appret,
                                 p |-> chidd_get_instance_by_itf(chidd, rq.wIndex % 256)],
                                r.ret, r.calls, r.ctrl)
                /\ ctl' = IF ~r.ret \/ stage = CONTROL_STAGE_ACK THEN <<>>
                          ELSE <<[rhport |-> rhport, req |-> rq,
                                  next |-> IF stage = CONTROL_STAGE_SETUP
                                           THEN CONTROL_STAGE_DATA
                                           ELSE CONTROL_STAGE_ACK,
                                  setup |-> IF idle THEN appret ELSE ctl[1].setup]>>
                /\ UNCHANGED <<app, cbs, x360, ep, outHist, offered, reoffer>>

\* the application asks for the protocol mode
HidGetProtocol ==
    \E itf \in ApiItfs :
        \E r \in {chidd_get_protocol(chidd, itf)} :
            /\ app = "hid"
            /\ last' = Call("chidd_get_protocol",
                            [itf |-> itf, p |-> chidd_get_instance_by_itf(chidd, itf),
                             mode |-> r.mode],
                            r.ret, <<>>, <<>>)
            /\ UNCHANGED <<app, cbs, x360, chidd, ep, outHist, offered, reoffer, ctl>>

\* The data path: the example's interfaces are enumerated once after each
\* reset, the application sends and receives, transfers complete.
Next ==
    \/ Reset(BoardPort)
    \/ X360Open(X360ExampleDescs, BoardPort, ExactLen, TRUE)
    \/ X360Report
    \/ X360XferComplete(BoardPort, HostMsgs)
    \/ X360Control(BoardPort, SetupStage, X360DataReqs)
    \/ HidOpen(HidKeyboardDescs, BoardPort, ExactLen, Rearms, TRUE)
    \/ HidSend
    \/ HidReceive
    \/ HidXferComplete(BoardPort, Rearms)
    \/ HidControl(BoardPort, SetupStage, HidDataReqs)

Spec == Init /\ [][Next]_vars

\* Binding: any sequence of open and reset calls, with well-formed, malformed
\* and foreign interface blocks, any port and any max_len.
NextBind ==
    \/ Reset(RhPorts)
    \/ X360Open(X360Descs, RhPorts, LenDeltas, FALSE)
    \/ HidOpen(HidDescs, RhPorts, LenDeltas, NoRearms, FALSE)

SpecBind == Init /\ [][NextBind]_vars

\* Control requests: the example's interfaces are enumerated, and the host
\* sends control requests in any stage and order.
NextCtl ==
    \/ Reset(BoardPort)
    \/ X360Open(X360ExampleDescs, BoardPort, ExactLen, TRUE)
    \/ X360Control(BoardPort, SetupStage, X360Reqs)
    \/ X360Control(BoardPort, LaterStages, X360StagedReqs)
    \/ X360Control(OtherPorts, SetupStage, X360StagedReqs)
    \/ HidOpen(HidKeyboardDescs, BoardPort, ExactLen, NoRearms, TRUE)
    \/ HidControl(BoardPort, SetupStage, HidReqs)
    \/ HidControl(BoardPort, LaterStages, HidStagedReqs)
    \/ HidControl(OtherPorts, SetupStage, HidStagedReqs)

SpecCtl == Init /\ [][NextCtl]_vars

\* The HID application: reports are sent and received while the host reads and
\* writes the protocol mode.
NextHid ==
    \/ Reset(BoardPort)
    \/ HidOpen(HidKeyboardDescs, BoardPort, ExactLen, Rearms, TRUE)
    \/ HidSend
    \/ HidReceive
    \/ HidXferComplete(BoardPort, Rearms)
    \/ HidControl(BoardPort, SetupStage, HidProtocolReqs)
    \/ HidGetProtocol

SpecHid == Init /\ [][NextHid]_vars

\* The gamepad application: reports are sent, the host sends rumble and LED
\* messages and asks for the capabilities and the serial number.
NextPad ==
    \/ Reset(BoardPort)
    \/ X360Open(X360ExampleDescs, BoardPort, ExactLen, TRUE)
    \/ X360Report
    \/ X360XferComplete(BoardPort, HostMsgs)
    \/ X360Control(BoardPort, SetupStage, X360DataReqs)

SpecPad == Init /\ [][NextPad]_vars

\* The OUT endpoint of the gamepad: the host sends well-formed and malformed
\* messages, transfers fail, the bus is reset.
NextOut ==
    \/ Reset(BoardPort)
    \/ X360Open(X360ExampleDescs, BoardPort, ExactLen, TRUE)
    \/ X360XferComplete(BoardPort, AllHostMsgs)

SpecOut == Init /\ [][NextOut]_vars

\* Enumeration of the gamepad: the host reads string descriptors, the MS OS
\* string descriptor among them, and asks for the MS OS feature descriptors.
NextEnum ==
    \/ Reset(BoardPort)
    \/ X360Open(X360ExampleDescs, BoardPort, ExactLen, TRUE)
    \/ X360GetString(StringIndexes)
    \/ X360Control(BoardPort, SetupStage, MsOsFeatureReqs)

SpecEnum == Init /\ [][NextEnum]_vars

\* The OUT endpoint of the keyboard: the application calls
\* chidd_receive_report from its callbacks only, as the example does, so the
\* transfer that is outstanding is the one the last chidd_receive_report
\* supplied; the host sends reports, transfers fail, and the host uses
\* GET_REPORT and SET_REPORT.
NextHidOut ==
    \/ Reset(BoardPort)
    \/ HidOpen(HidKeyboardDescs, BoardPort, ExactLen, Rearms, TRUE)
    \/ HidXferComplete(BoardPort, Rearms)
    \/ HidControl(BoardPort, SetupStage, HidDataReqs)

SpecHidOut == Init /\ [][NextHidOut]_vars

\* Control transfers next to the OUT endpoint of the keyboard: the host sends
\* reports on the OUT endpoint while a GET_REPORT or SET_REPORT control
\* transfer goes through its stages.
NextXfer ==
    \/ Reset(BoardPort)
    \/ HidOpen(HidKeyboardDescs, BoardPort, ExactLen, Rearms, TRUE)
    \/ HidXferComplete(BoardPort, Rearms)
    \/ HidControlTransfer(BoardPort,
                          HidDataReqs \cup {Req(0, TUSB_REQ_TYPE_CLASS,
                                                TUSB_REQ_RCPT_INTERFACE,
                                                HID_REQ_CONTROL_SET_REPORT, 0, 0, 2)})

SpecXfer == Init /\ [][NextXfer]_vars

\* The idle rate: the host sets and reads it on the enumerated interface.
NextIdle ==
    \/ Reset(BoardPort)
    \/ HidOpen(HidKeyboardDescs, BoardPort, ExactLen, NoRearms, TRUE)
    \/ HidControl(BoardPort, SetupStage, HidIdleReqs)

SpecIdle == Init /\ [][NextIdle]_vars

\* the API calls of an application on interfaces that have one endpoint
\* only, next to the examples' interfaces with both
NextApi ==
    \/ Reset(BoardPort)
    \/ X360Open(X360ExampleDescs \cup {X360Desc(0, <<EpDesc(1, TUSB_XFER_INTERRUPT)>>)},
                BoardPort, ExactLen, TRUE)
    \/ X360Report
    \/ HidOpen(HidKeyboardDescs \cup {HidDesc(0, <<EpDesc(129, TUSB_XFER_INTERRUPT)>>),
                                      HidDesc(0, <<EpDesc(1, TUSB_XFER_INTERRUPT)>>)},
               BoardPort, ExactLen, NoRearms, TRUE)
    \/ HidSend
    \/ HidReceive

SpecApi == Init /\ [][NextApi]_vars

-----------------------------------------------------------------------------
(* Properties *)

\* the callbacks of one name among the calls an operation made
CallsOf(calls, name) == Cardinality({k \in 1..Len(calls) : calls[k].cb = name})

C2_FalseIffOutstanding ==
    (last.op \in {"x360d_n_report", "chidd_send_report"} /\ last.a.p # 0)
        => (~last.ret <=> last.a.busy)

\* C2 as amended: the two calls return false whenever an IN transfer is already
\* outstanding; they return true exactly when an instance is bound to the
\* interface number, its IN endpoint is neither busy nor claimed, and (for
\* chidd_send_report) the buffer is non-null and the length non-zero.
C2_FalseWhenOutstanding ==
    /\ last.op = "x360d_n_report"
         => (last.ret <=> (last.a.p # 0 /\ ~last.a.busy /\ ~last.a.claimed))
    /\ last.op = "chidd_send_report"
         => (last.ret <=> (/\ last.a.p # 0 /\ ~last.a.busy /\ ~last.a.claimed
                           /\ last.a.report # 0 /\ last.a.len # 0))

\* a send with a valid buffer was refused on an endpoint that is claimed but idle
C2_Witness ==
    /\ last.op = "chidd_send_report"
    /\ last.a.p # 0 /\ last.a.report # 0 /\ last.a.len # 0
    /\ last.a.claimed /\ ~last.a.busy
    /\ ~last.ret

\* a 3-byte LED message
IsLedMsg(m) == Len(m) = SizeofX360MessageLed /\ m[1] = X360_MESSAGE_TYPE_OUT_LED

\* instance i has just received two identical LED messages back-to-back
LedPair(i) ==
    /\ Len(outHist[i]) = 2
    /\ IsLedMsg(outHist[i][1].msg)
    /\ outHist[i][1].msg = outHist[i][2].msg

\* C3 as stated: two identical LED messages back-to-back invoke
\* x360d_received_led_cb exactly once for the pair, whatever the animation
\* code and whatever happened before (with the callback registered).
C3_ExactlyOncePerPair ==
    \A i \in X360Idx :
        ("x360d_received_led_cb" \in cbs /\ LedPair(i))
            => CallsOf(outHist[i][1].calls, "x360d_received_led_cb")
               + CallsOf(outHist[i][2].calls, "x360d_received_led_cb") = 1

\* C3 as amended: the pair invokes x360d_received_led_cb at most once: once,
\* on the first message, if the callback is registered and the animation code
\* differs from the LED code stored before the pair (0 after open or reset),
\* and not at all otherwise.
C3_OncePerChange ==
    \A i \in X360Idx :
        LedPair(i)
            => /\ CallsOf(outHist[i][2].calls, "x360d_received_led_cb") = 0
               /\ CallsOf(outHist[i][1].calls, "x360d_received_led_cb")
                    = IF "x360d_received_led_cb" \in cbs
                         /\ outHist[i][1].before # outHist[i][1].msg[3]
                      THEN 1 ELSE 0

\* a pair of identical LED messages whose first one reached the application
C3_Witness ==
    \E i \in X360Idx :
        /\ LedPair(i)
        /\ CallsOf(outHist[i][1].calls, "x360d_received_led_cb") = 1
        /\ outHist[i][2].calls = <<>>

\* the instance a lookup returns is bound and carries the interface number
LookupOk(insts, p, i) ==
    p = 0 \/ ((insts[p].ep_in # 0 \/ insts[p].ep_out # 0) /\ insts[p].itf_num = i)

\* C4: for every interface number i, in every reachable state, lookup by
\* interface number returns, in both drivers, either nothing or an instance
\* that is not free and whose itf_num is i; a free slot is never returned.
C4_LookupByItf ==
    \A i \in 0..2 :
        /\ LookupOk(x360, x360_get_instance_by_itf(x360, i), i)
        /\ LookupOk(chidd, chidd_get_instance_by_itf(chidd, i), i)

\* the first slot is bound to interface 1 and the second is free, with the
\* interface number 0 it was cleared to: looking up 0 finds nothing
C4_Witness ==
    /\ chidd[1].itf_num = 1 /\ chidd[1].ep_in # 0
    /\ chidd[2].ep_in = 0 /\ chidd[2].ep_out = 0 /\ chidd[2].itf_num = 0
    /\ chidd_get_instance_by_itf(chidd, 1) = 1
    /\ chidd_get_instance_by_itf(chidd, 0) = 0

\* the non-zero endpoint addresses an instance holds
EpsOf(inst) == {inst.ep_in, inst.ep_out} \ {0}

NoSharedEndpoint ==
    /\ \A i, j \in X360Idx : i # j => EpsOf(x360[i]) \cap EpsOf(x360[j]) = {}
    /\ \A i, j \in ChiddIdx : i # j => EpsOf(chidd[i]) \cap EpsOf(chidd[j]) = {}

\* C5 as stated: after any sequence of open and reset calls on a driver, no
\* two instances of its array hold the same non-zero endpoint address.
C5_NoSharedEndpointEver == NoSharedEndpoint

\* C5 as amended: after any sequence of open and reset calls in which no
\* endpoint address is offered to open twice between two resets, no two
\* instances of a driver hold the same non-zero endpoint address.
C5_NoSharedEndpointOnce == ~reoffer => NoSharedEndpoint

\* both slots of the HID driver are bound, to different endpoints
C5_Witness ==
    /\ ~reoffer
    /\ \A i \in ChiddIdx : chidd[i].ep_in # 0 /\ chidd[i].ep_out # 0
    /\ EpsOf(chidd[1]) \cap EpsOf(chidd[2]) = {}

\* C8: x360d_open and chidd_open called with max_len below the block length
\* (interface + class-specific or HID descriptor + bNumEndpoints endpoint
\* descriptors) return 0, open no endpoint and leave every instance as it was.
C8_ShortBlockRejected ==
    [][(last'.op \in {"x360d_open", "chidd_open"}
        /\ last'.a.max_len < last'.a.drv_len)
       => (last'.ret = 0 /\ x360' = x360 /\ chidd' = chidd /\ ep' = ep)]_vars

\* a well-formed HID interface block was refused for its length alone
C8_Witness ==
    /\ last.op = "chidd_open"
    /\ last.a.d \in HidExampleDescs
    /\ last.a.max_len < last.a.drv_len
    /\ last.ret = 0
    /\ chidd_get_free_instance(chidd) # 0
    /\ DescEps(last.a.d) \cap UNION {EpsOf(chidd[i]) : i \in ChiddIdx} = {}

\* C6: for every x360_controls value, a successful x360d_n_report queues
\* exactly 20 bytes on the IN endpoint: 0x00, 0x14, then the 18 controls bytes
\* unchanged, buttons little-endian at offsets 2-3 (A alone gives 00 14 00 10
\* and 16 zero bytes); re-parsing bytes 2..19 gives back the controls value.
C6_ReportBytes ==
    (last.op = "x360d_n_report" /\ last.ret)
        => LET p == last.a.p
               q == ep[x360[p].ep_in].queue
               b == x360[p].transfer_in_buf
               c == SubSeq(b, 3, 20)
           IN /\ p # 0
              /\ q = <<[buf |-> X360InBuf(p), len |-> 20]>>
              /\ Len(b) >= 20
              /\ b[1] = 0 /\ b[2] = 20
              /\ c = last.a.report
              /\ ButtonsOf(c) = ButtonsOf(last.a.report)
              /\ b[3] + 256 * b[4] = ButtonsOf(last.a.report)
              /\ (last.a.report = ControlsOf(2 ^ X360_BUTTON_A, Zeros(16))
                    => b = <<0, 20, 0, 16>> \o Zeros(16))

\* a report with A alone pressed was accepted
C6_Witness ==
    /\ last.op = "x360d_n_report" /\ last.ret
    /\ ButtonsOf(last.a.report) = 2 ^ X360_BUTTON_A
    /\ x360[last.a.p].transfer_in_buf = <<0, 20, 0, 16>> \o Zeros(16)

\* C7: when chidd_send_report returns true for a non-null buf and a non-zero
\* len, the transfer queued on the instance's IN endpoint carries exactly
\* that buffer and exactly len bytes: no copy, truncation or header.
C7_SendReportAsGiven ==
    (last.op = "chidd_send_report" /\ last.ret)
        => /\ last.a.p # 0 /\ last.a.report # 0 /\ last.a.len # 0
           /\ ep[chidd[last.a.p].ep_in].queue
                = <<[buf |-> last.a.report, len |-> last.a.len]>>

\* the second application buffer was sent with the largest length
C7_Witness ==
    /\ last.op = "chidd_send_report" /\ last.ret
    /\ last.a.report = 2 /\ last.a.len = MaxXferLen
    /\ ep[chidd[last.a.p].ep_in].queue = <<[buf |-> 2, len |-> MaxXferLen]>>

\* C9: whenever x360d_control_xfer_cb, ms_os_control_xfer_cb or
\* chidd_control_xfer_cb returns false, the call has changed no instance field
\* and has queued no control data or status transfer.
C9_UnhandledHasNoEffect ==
    [][/\ (last'.op = "chidd_control_xfer_cb" /\ ~last'.ret)
            => (chidd' = chidd /\ last'.ctrl = <<>>)
       /\ (last'.op = "tud_vendor_control_xfer_cb" /\ ~last'.a.x360d.ret)
            => (x360' = x360 /\ last'.a.x360d.ctrl = <<>>)
       /\ (last'.op = "tud_vendor_control_xfer_cb" /\ last'.a.ms_os.called
            /\ ~last'.a.ms_os.ret)
            => (x360' = x360 /\ last'.a.ms_os.ctrl = <<>>)]_vars

\* the request for an X360 instance bound on the port it arrives on
X360Addressed(a) ==
    /\ a.stage = CONTROL_STAGE_SETUP
    /\ a.req.type = TUSB_REQ_TYPE_VENDOR /\ a.req.bRequest = 1
    /\ a.p # 0 /\ x360[a.p].itf_num = a.req.wIndex /\ x360[a.p].rhport = a.rhport

\* C10: a vendor request 0x01 at SETUP whose wIndex addresses a bound X360
\* instance is dispatched by recipient first and wValue second: INTERFACE and
\* 0x0000 replies the 8-byte rumble capability, INTERFACE and 0x0100 the 20-byte
\* input capability, DEVICE and 0x0000 the serial string bytes without the NUL;
\* every other recipient and wValue is unhandled.
C10_VendorDispatch ==
    (last.op = "tud_vendor_control_xfer_cb" /\ X360Addressed(last.a))
        => LET r == last.a.req
               x == last.a.x360d
               buf == X360InBuf(last.a.p)
           IN IF r.rcpt = TUSB_REQ_RCPT_INTERFACE /\ r.wValue = 0
              THEN x.ret /\ x.ctrl = <<CtrlData(buf, <<0, 8, 0>> \o X360_RUMBLE_SUPPORT
                                                      \o <<0, 0, 0>>, 8)>>
              ELSE IF r.rcpt = TUSB_REQ_RCPT_INTERFACE /\ r.wValue = 256
              THEN x.ret /\ x.ctrl = <<CtrlData(buf, <<0, 20>> \o X360_INPUT_SUPPORT, 20)>>
              ELSE IF r.rcpt = TUSB_REQ_RCPT_DEVICE /\ r.wValue = 0
              THEN x.ret /\ x.ctrl = <<CtrlData(buf, X360_SERIAL_NUMBER,
                                                Len(X360_SERIAL_NUMBER))>>
              ELSE ~x.ret /\ x.ctrl = <<>>

\* the serial number was requested from the device and replied
C10_Witness ==
    /\ last.op = "tud_vendor_control_xfer_cb" /\ X360Addressed(last.a)
    /\ last.a.req.rcpt = TUSB_REQ_RCPT_DEVICE /\ last.a.req.wValue = 0
    /\ last.ret
    /\ last.ctrl = <<CtrlData(X360InBuf(last.a.p), <<65, 66, 67>>, 3)>>

\* slot i is bound to an interface
Bound(inst) == inst.ep_in # 0 \/ inst.ep_out # 0

\* the call l is a class request b in direction dir at the SETUP stage that
\* chidd_control_xfer_cb hands to the class handler for instance i
ClassSetup(l, i, b, dir) ==
    /\ l.op = "chidd_control_xfer_cb"
    /\ l.a.p = i /\ l.a.rhport = chidd[i].rhport /\ l.a.req.wIndex = chidd[i].itf_num
    /\ l.a.stage = CONTROL_STAGE_SETUP
    /\ l.a.req.rcpt = TUSB_REQ_RCPT_INTERFACE /\ l.a.req.type = TUSB_REQ_TYPE_CLASS
    /\ l.a.req.bRequest = b /\ l.a.req.dir = dir

\* C11: after a SET_PROTOCOL with wValue 0 on a bound HID instance
\* protocol_mode is Boot (0); from then on every GET_PROTOCOL reply byte and
\* every chidd_get_protocol result is 0 until another SET_PROTOCOL or a reset;
\* and protocol_mode changes only by SET_PROTOCOL, reset and open.
C11_BootUntilSetProtocol ==
    [][\A i \in ChiddIdx :
         /\ (ClassSetup(last', i, HID_REQ_CONTROL_SET_PROTOCOL, 0)
              /\ last'.a.req.wValue = 0)
               => chidd'[i].protocol_mode = 0
         /\ (/\ Bound(chidd[i]) /\ chidd[i].protocol_mode = 0
             /\ ~ClassSetup(last', i, HID_REQ_CONTROL_SET_PROTOCOL, 0)
             /\ last'.op # "reset")
               => /\ chidd'[i].protocol_mode = 0
                  /\ ClassSetup(last', i, HID_REQ_CONTROL_GET_PROTOCOL, 1)
                       => last'.ret /\ last'.ctrl = <<CtrlData(0, <<0>>, 1)>>
                  /\ (last'.op = "chidd_get_protocol" /\ last'.a.p = i)
                       => last'.ret /\ last'.a.mode = 0
         /\ chidd'[i].protocol_mode # chidd[i].protocol_mode
               => \/ ClassSetup(last', i, HID_REQ_CONTROL_SET_PROTOCOL, 0)
                  \/ last'.op \in {"reset", "chidd_open"}]_vars

\* the application reads Boot while an IN report and an OUT transfer are
\* outstanding on the instance
C11_Witness ==
    /\ last.op = "chidd_get_protocol" /\ last.ret /\ last.a.mode = 0
    /\ Len(ep[chidd[last.a.p].ep_in].queue) = 1
    /\ Len(ep[chidd[last.a.p].ep_out].queue) = 1

\* C12: on a bound HID instance a SET_IDLE at the SETUP stage with report id
\* 0 stores the high byte of wValue as idle_rate, for every value 0..255; a
\* SET_IDLE with another report id leaves idle_rate unchanged; a GET_IDLE with
\* report id 0 replies with one byte, the stored idle_rate.
C12_IdleRateStored ==
    [][\A i \in ChiddIdx :
         /\ ClassSetup(last', i, HID_REQ_CONTROL_SET_IDLE, 0)
               => LET a == last'.a
                      id == tu_u16_low(a.req.wValue)
                  IN /\ chidd'[i].idle_rate =
                          IF id = 0 THEN tu_u16_high(a.req.wValue)
                          ELSE chidd[i].idle_rate
                     /\ \A rate \in 0..255 :
                          chidd_class_specific_request_handler(
                              chidd, i, cbs, a.stage,
                              [a.req EXCEPT !.wValue = 256 * rate + id],
                              a.appret).c[i].idle_rate
                            = IF id = 0 THEN rate ELSE chidd[i].idle_rate
         /\ (ClassSetup(last', i, HID_REQ_CONTROL_GET_IDLE, 1)
              /\ tu_u16_low(last'.a.req.wValue) = 0)
               => /\ last'.ret
                  /\ last'.ctrl = <<CtrlData(0, <<chidd[i].idle_rate>>, 1)>>
                  /\ chidd'[i].idle_rate = chidd[i].idle_rate]_vars

\* GET_IDLE replies 0xFF: a SET_IDLE with wValue 0xFF00 came before
C12_Witness ==
    /\ last.op = "chidd_control_xfer_cb"
    /\ last.a.req.bRequest = HID_REQ_CONTROL_GET_IDLE /\ last.a.req.wValue = 0
    /\ last.a.p # 0 /\ last.ret
    /\ last.ctrl = <<CtrlData(0, <<255>>, 1)>>
    /\ chidd[last.a.p].idle_rate = 255

\* the completion l, handled in the state before it, is the one chidd_xfer_cb
\* dispatches as `result' on the OUT endpoint of instance i
HidOutCompletion(l, i, result) ==
    /\ l.op = "chidd_xfer_cb" /\ l.a.p = i
    /\ l.a.rhport = chidd[i].rhport /\ l.a.result = result
    /\ l.a.ep_addr = chidd[i].ep_out /\ l.a.ep_addr # chidd[i].ep_in

\* C13: when an OUT transfer of a HID instance completes successfully the
\* driver clears the stored OUT buffer and length, then calls
\* chidd_report_received_complete_cb(itf, 0xFF, OUTPUT, the buffer that was
\* stored, transferred length) and does not re-arm: the endpoint is armed
\* afterwards exactly when the application called chidd_receive_report inside
\* the callback, and then with the new buffer; an unarmed OUT endpoint is
\* armed only by a chidd_receive_report of the application.
C13_OutClearedNotRearmed ==
    [][\A i \in ChiddIdx :
         /\ (HidOutCompletion(last', i, XFER_RESULT_SUCCESS)
              /\ "chidd_report_received_complete_cb" \in cbs)
               => LET a == last'.a
                      out == chidd[i].ep_out
                  IN /\ last'.calls =
                          <<[cb |-> "chidd_report_received_complete_cb",
                             args |-> <<chidd[i].itf_num, 255, HID_REPORT_TYPE_OUTPUT,
                                        chidd[i].transfer_out_buf, a.n>>]>>
                     /\ IF a.rearm.do
                        THEN /\ chidd'[i].transfer_out_buf = a.rearm.buf
                             /\ chidd'[i].transfer_out_size = a.rearm.len
                             /\ ep'[out].queue =
                                  <<[buf |-> a.rearm.buf, len |-> a.rearm.len]>>
                        ELSE /\ chidd'[i].transfer_out_buf = 0
                             /\ chidd'[i].transfer_out_size = 0
                             /\ ep'[out].queue = <<>>
         /\ (/\ chidd[i].ep_out # 0 /\ chidd'[i].ep_out = chidd[i].ep_out
             /\ ep[chidd[i].ep_out].queue = <<>>
             /\ ep'[chidd[i].ep_out].queue # <<>>)
               => \/ last'.op = "chidd_receive_report" /\ last'.ret
                  \/ last'.op = "chidd_xfer_cb" /\ last'.a.rearm.do]_vars

\* a received report was handed to the application, which armed the endpoint
\* again from inside the callback
C13_Witness ==
    /\ last.op = "chidd_xfer_cb" /\ last.a.p # 0
    /\ last.a.result = XFER_RESULT_SUCCESS
    /\ last.a.ep_addr = chidd[last.a.p].ep_out
    /\ last.a.rearm.do
    /\ last.calls # <<>> /\ last.calls[1].args[4] = 2
    /\ chidd[last.a.p].transfer_out_buf = 1
    /\ ep[last.a.ep_addr].queue = <<[buf |-> 1, len |-> 1]>>

\* C14: when an OUT transfer of a HID instance completes with an error and
\* no chidd_report_issue_cb is registered, the driver re-arms the OUT endpoint
\* with the buffer and length the last chidd_receive_report supplied (those of
\* the transfer that failed); when the callback is registered it is called
\* once with (itf, ep, result, len) and the driver does not re-arm (the
\* endpoint is armed afterwards only by what the application did inside the
\* callback).
C14_RearmedAsGiven ==
    [][\A i \in ChiddIdx :
         HidOutCompletion(last', i, XFER_RESULT_FAILED)
           => LET a == last'.a
                  out == chidd[i].ep_out
              IN IF "chidd_report_issue_cb" \notin cbs
                 THEN /\ last'.calls = <<>>
                      /\ ep'[out].queue = <<a.xf>>
                 ELSE /\ last'.calls =
                           <<[cb |-> "chidd_report_issue_cb",
                              args |-> <<chidd[i].itf_num, a.ep_addr, a.result, a.n>>]>>
                      /\ ep'[out].queue =
                           IF a.rearm.do
                           THEN <<[buf |-> a.rearm.buf, len |-> a.rearm.len]>>
                           ELSE <<>>]_vars

\* C15: with no x360d_report_issue_cb registered, every bound X360 instance
\* that has an OUT endpoint has, between two driver calls, exactly one OUT
\* transfer outstanding: X360_TRANSFER_OUT_BUFFER_SIZE (8) bytes into the
\* instance's own OUT buffer. x360d_open arms it and every OUT completion,
\* successful with any message or failed, arms it again.
C15_OneOutArmed ==
    "x360d_report_issue_cb" \notin cbs
      => \A i \in X360Idx :
           x360[i].ep_out # 0
             => /\ ep[x360[i].ep_out].busy
                /\ ep[x360[i].ep_out].queue =
                     <<[buf |-> X360OutBuf(i), len |-> X360_TRANSFER_OUT_BUFFER_SIZE]>>

\* a failed OUT transfer of a bound instance was armed again by the driver
C15_Witness ==
    /\ "x360d_report_issue_cb" \notin cbs
    /\ last.op = "x360d_xfer_cb" /\ last.a.p # 0
    /\ last.a.result = XFER_RESULT_FAILED
    /\ last.a.ep_addr = x360[last.a.p].ep_out
    /\ ep[last.a.ep_addr].queue = <<[buf |-> X360OutBuf(last.a.p), len |-> 8]>>

\* the completion l, handled in the state before it, is one that x360d_xfer_cb
\* accepts for instance i: the endpoint is the instance's, on its port
X360Completion(l, i) ==
    /\ l.op = "x360d_xfer_cb" /\ l.a.p = i
    /\ l.a.rhport = x360[i].rhport

\* the endpoint queues after the stack released the completed transfer and
\* the driver queued `more' on endpoint a
Released(e, a, more) ==
    [b \in EpAddrs |-> IF b = a THEN Tail(e[b].queue) \o more ELSE e[b].queue]

\* C16: a transfer of an X360 instance completes without success. With
\* x360d_report_issue_cb registered the driver calls it once with (itf_num,
\* ep_addr, result, xferred_bytes) and queues no transfer; without it the
\* driver queues a new OUT transfer when the failed endpoint is the OUT
\* endpoint and does nothing for the IN endpoint. In both cases no other
\* callback is called and the instance, its LED code included, is unchanged.
C16_FailedCompletion ==
    [][\A i \in X360Idx :
         (X360Completion(last', i) /\ last'.a.result # XFER_RESULT_SUCCESS)
           => LET a == last'.a.ep_addr
                  queues == [b \in EpAddrs |-> ep'[b].queue]
              IN /\ x360' = x360
                 /\ IF "x360d_report_issue_cb" \in cbs
                    THEN /\ last'.calls =
                              <<[cb |-> "x360d_report_issue_cb",
                                 args |-> <<x360[i].itf_num, a, last'.a.result,
                                            last'.a.n>>]>>
                         /\ queues = Released(ep, a, <<>>)
                    ELSE /\ last'.calls = <<>>
                         /\ queues =
                              IF a = x360[i].ep_out
                              THEN Released(ep, a,
                                     <<[buf |-> X360OutBuf(i),
                                        len |-> X360_TRANSFER_OUT_BUFFER_SIZE]>>)
                              ELSE Released(ep, a, <<>>)]_vars

\* a failed OUT transfer was reported to x360d_report_issue_cb and the OUT
\* endpoint was left without a transfer
C16_Witness ==
    /\ "x360d_report_issue_cb" \in cbs
    /\ last.op = "x360d_xfer_cb" /\ last.a.p # 0
    /\ last.a.result = XFER_RESULT_FAILED
    /\ last.a.ep_addr = x360[last.a.p].ep_out
    /\ Len(last.calls) = 1
    /\ ep[last.a.ep_addr].queue = <<>>

\* a failed IN transfer was dropped without a callback
C16_FailedInDropped ==
    /\ "x360d_report_issue_cb" \notin cbs
    /\ last.op = "x360d_xfer_cb" /\ last.a.p # 0
    /\ last.a.result = XFER_RESULT_FAILED
    /\ last.a.ep_addr = x360[last.a.p].ep_in
    /\ last.calls = <<>>

\* the completion l is a successful OUT transfer of instance i
X360OutReceived(l, i) ==
    /\ X360Completion(l, i) /\ l.a.result = XFER_RESULT_SUCCESS
    /\ l.a.ep_addr = x360[i].ep_out /\ l.a.ep_addr # x360[i].ep_in

\* the message of n bytes is taken as a rumble / as an LED message when the
\* header must be whole (type and length byte), and when the type alone counts
RumbleByHeader(m, n) == n = 8 /\ m[1] = X360_MESSAGE_TYPE_OUT_RUMBLE /\ m[2] = 8

LedByHeader(m, n) == n = 3 /\ m[1] = X360_MESSAGE_TYPE_OUT_LED /\ m[2] = 3

RumbleByType(m, n) == n = 8 /\ m[1] = X360_MESSAGE_TYPE_OUT_RUMBLE

LedByType(m, n) == n = 3 /\ m[1] = X360_MESSAGE_TYPE_OUT_LED

\* C17 as stated: a successful OUT transfer calls x360d_received_rumble_cb only
\* for 8 transferred bytes with header {type 0x00, length 8} and
\* x360d_received_led_cb only for 3 transferred bytes with header {type 0x01,
\* length 3}; any other message, one whose header length byte disagrees with
\* the transferred length included, calls nothing and changes no state.
C17_DispatchByHeader ==
    [][\A i \in X360Idx :
         X360OutReceived(last', i)
           => LET m == last'.a.msg
                  n == last'.a.n
              IN /\ CallsOf(last'.calls, "x360d_received_rumble_cb") > 0
                      => RumbleByHeader(m, n)
                 /\ CallsOf(last'.calls, "x360d_received_led_cb") > 0
                      => LedByHeader(m, n)
                 /\ (~RumbleByHeader(m, n) /\ ~LedByHeader(m, n))
                      => /\ last'.calls = <<>>
                         /\ x360'[i].led = x360[i].led]_vars

\* C17, amended: the header's length byte is not examined. A successful OUT
\* transfer calls x360d_received_rumble_cb only for 8 transferred bytes of type
\* 0x00 (and then always, when the callback is registered, with bytes 3 and 4)
\* and x360d_received_led_cb only for 3 transferred bytes of type 0x01; every
\* other pair of transferred length and type calls nothing and changes
\* nothing in the instance but the received bytes.
C17_DispatchByTypeAndSize ==
    [][\A i \in X360Idx :
         X360OutReceived(last', i)
           => LET m == last'.a.msg
                  n == last'.a.n
              IN /\ CallsOf(last'.calls, "x360d_received_rumble_cb") > 0
                      => RumbleByType(m, n)
                 /\ CallsOf(last'.calls, "x360d_received_led_cb") > 0
                      => LedByType(m, n)
                 /\ (RumbleByType(m, n) /\ "x360d_received_rumble_cb" \in cbs)
                      => last'.calls = <<[cb |-> "x360d_received_rumble_cb",
                                          args |-> <<x360[i].itf_num, m[4], m[5]>>]>>
                 /\ (~RumbleByType(m, n) /\ ~LedByType(m, n))
                      => /\ last'.calls = <<>>
                         /\ x360'[i] = [x360[i] EXCEPT
                                          !.transfer_out_buf = MemCpy(@, 0, m, n)]]_vars

\* a rumble of 8 bytes whose header announces 3 reached the application
C17_Witness ==
    /\ last.op = "x360d_xfer_cb" /\ last.a.p # 0
    /\ last.a.result = XFER_RESULT_SUCCESS
    /\ last.a.ep_addr = x360[last.a.p].ep_out
    /\ last.a.n = 8 /\ last.a.msg[2] = 3
    /\ last.calls = <<[cb |-> "x360d_received_rumble_cb",
                       args |-> <<x360[last.a.p].itf_num, 128, 64>>]>>

\* C18: for an LED message on the OUT endpoint the driver calls
\* x360d_received_led_cb(itf, animation), when the application defines it, if
\* and only if the animation code differs from the stored one; afterwards the
\* stored code is the message's code. A message with the stored code calls
\* nothing, and in either case the OUT endpoint is armed again.
C18_LedDebounced ==
    [][\A i \in X360Idx :
         (X360OutReceived(last', i) /\ LedByType(last'.a.msg, last'.a.n))
           => LET led == last'.a.msg[3]
                  out == x360[i].ep_out
              IN /\ last'.calls =
                      IF led # x360[i].led /\ "x360d_received_led_cb" \in cbs
                      THEN <<[cb |-> "x360d_received_led_cb",
                              args |-> <<x360[i].itf_num, led>>]>>
                      ELSE <<>>
                 /\ x360'[i].led = led
                 /\ ep'[out].queue =
                      <<[buf |-> X360OutBuf(i), len |-> X360_TRANSFER_OUT_BUFFER_SIZE]>>]_vars

\* the same LED code arrived twice: the first message was reported, the
\* second was dropped and the endpoint armed again
C18_Witness ==
    /\ "x360d_received_led_cb" \in cbs
    /\ last.op = "x360d_xfer_cb" /\ last.a.p # 0
    /\ last.a.result = XFER_RESULT_SUCCESS
    /\ last.a.ep_addr = x360[last.a.p].ep_out
    /\ last.a.msg = <<1, 3, 6>>
    /\ last.calls = <<>>
    /\ x360[last.a.p].led = 6
    /\ Len(outHist[last.a.p]) = 2
    /\ outHist[last.a.p][1].msg = <<1, 3, 6>>
    /\ Len(outHist[last.a.p][1].calls) = 1
    /\ ep[last.a.ep_addr].queue = <<[buf |-> X360OutBuf(last.a.p), len |-> 8]>>

\* the two feature descriptor providers an application may define
MsOsProviders == {"tud_descriptor_ms_compatid_cb", "tud_descriptor_ms_property_cb"}

\* requests offered to ms_os_control_xfer_cb alone: every type, the vendor
\* code and request 1, the feature indexes and their neighbours
MsOsReqs ==
    { Req(1, type, TUSB_REQ_RCPT_DEVICE, b, 0, wIndex, 40) :
        type \in {TUSB_REQ_TYPE_STANDARD, TUSB_REQ_TYPE_CLASS, TUSB_REQ_TYPE_VENDOR},
        b \in {1, MS_OS_DESCRIPTOR_VENDORCODE},
        wIndex \in {0, 1, MS_EXTENDED_COMPATID_DESCRIPTOR,
                    MS_EXTENDED_PROPERTIES_DESCRIPTOR, 6} }

\* what C19 asks of the result m of ms_os_control_xfer_cb: handled exactly for
\* a vendor request with the vendor code, a feature index and its provider
\* registered; the provider's blob is replied at the SETUP stage
MsOsDispatch(cb, stage, req, appret, m) ==
    LET provider == IF req.wIndex = MS_EXTENDED_COMPATID_DESCRIPTOR
                    THEN {"tud_descriptor_ms_compatid_cb"}
                    ELSE IF req.wIndex = MS_EXTENDED_PROPERTIES_DESCRIPTOR
                    THEN {"tud_descriptor_ms_property_cb"}
                    ELSE {}
        blob == IF req.wIndex = MS_EXTENDED_COMPATID_DESCRIPTOR
                THEN CtrlData(CompatIdBlob, ms_driver, CompatIdLen)
                ELSE CtrlData(appret.buf, <<>>, appret.len)
    IN IF /\ req.type = TUSB_REQ_TYPE_VENDOR
          /\ req.bRequest = MS_OS_DESCRIPTOR_VENDORCODE
          /\ provider # {} /\ provider \subseteq cb
       THEN /\ m.ret
            /\ m.ctrl = IF stage = CONTROL_STAGE_SETUP THEN <<blob>> ELSE <<>>
       ELSE ~m.ret /\ m.ctrl = <<>>

\* C19: ms_os_control_xfer_cb handles only vendor-type requests whose bRequest
\* is the MS OS vendor code: wIndex 0x04 is answered with the blob of the
\* compat-ID provider, wIndex 0x05 with the blob of the extended-properties
\* provider, every other wIndex is unhandled and so is a request whose
\* provider the application does not define. This holds for every request
\* the stack hands over, and for every set of providers, stage and request.
C19_MsOsDispatch ==
    /\ (last.op = "tud_vendor_control_xfer_cb" /\ last.a.ms_os.called)
         => MsOsDispatch(cbs, last.a.stage, last.a.req, last.a.appret, last.a.ms_os)
    /\ \A cb \in SUBSET MsOsProviders, stage \in ControlStages, req \in MsOsReqs,
          appret \in AppRets :
         MsOsDispatch(cb, stage, req, appret,
                      ms_os_control_xfer_cb(cb, BOARD_TUD_RHPORT, stage, req, appret))

\* the extended properties were requested and the provider's blob was replied
C19_Witness ==
    /\ last.op = "tud_vendor_control_xfer_cb" /\ last.a.ms_os.called
    /\ last.a.req.wIndex = MS_EXTENDED_PROPERTIES_DESCRIPTOR
    /\ last.a.stage = CONTROL_STAGE_SETUP
    /\ last.ret
    /\ last.a.ms_os.ctrl = <<CtrlData(1, <<>>, 1)>>

\* bytes off+1 .. off+n of a descriptor (off counts from 0 as in the C struct)
Field(d, off, n) == SubSeq(d, off + 1, off + n)

\* the request is the compat-ID feature request: vendor type, the vendor
\* code 0x42, wIndex 0x04, at the SETUP stage
CompatIdRequest(a) ==
    /\ a.stage = CONTROL_STAGE_SETUP
    /\ a.req.type = TUSB_REQ_TYPE_VENDOR
    /\ a.req.bRequest = 66 /\ a.req.wIndex = 4

\* C20: tud_descriptor_string_cb returns the MS OS string descriptor (0x12
\* bytes, type 0x03, signature "MSFT100", vendor code 0x42) for index 0xEE
\* and for no other index; every other index at or above the number of
\* regular strings returns NULL. A vendor request with bRequest 0x42 and
\* wIndex 0x04 is answered with the compat-ID blob: dwLength 40, bCount 1 and
\* compatibleID "XUSB10" plus two NUL bytes at offset 18.
C20_MsOsEnumeration ==
    /\ last.op = "tud_descriptor_string_cb"
         => LET d == last.a.desc
            IN /\ last.a.index = 238
                    => /\ Len(d) = 18 /\ d[1] = 18 /\ d[2] = 3
                       /\ Field(d, 2, 14) = <<77, 0, 83, 0, 70, 0, 84, 0, 49, 0,
                                              48, 0, 48, 0>>
                       /\ d[17] = 66
               /\ last.a.index # 238
                    => /\ d # desc_ms_os
                       /\ last.a.index >= 4 => d = NoDescriptor /\ ~last.ret
    /\ (last.op = "tud_vendor_control_xfer_cb" /\ CompatIdRequest(last.a))
         => /\ last.ret
            /\ Len(last.ctrl) = 1
            /\ LET blob == last.ctrl[1]
               IN /\ blob.len = 40 /\ Len(blob.data) = 40
                  /\ Field(blob.data, 0, 4) = <<40, 0, 0, 0>>
                  /\ blob.data[9] = 1
                  /\ Field(blob.data, 18, 8) = <<88, 85, 83, 66, 49, 48, 0, 0>>

\* the compat-ID blob was replied to the host
C20_Witness ==
    /\ last.op = "tud_vendor_control_xfer_cb" /\ CompatIdRequest(last.a)
    /\ last.ret
    /\ last.ctrl = <<CtrlData(CompatIdBlob, ms_driver, 40)>>

\* the MS OS string descriptor was returned for index 0xEE
C20_MsOsStringReturned ==
    /\ last.op = "tud_descriptor_string_cb"
    /\ last.a.index = 238 /\ last.ret
    /\ last.a.desc = desc_ms_os

\* the vendor request 0x01 of the call a addresses a bound X360 instance on its
\* port with a recipient and wValue the driver answers
X360Recognized(a) ==
    /\ a.req.type = TUSB_REQ_TYPE_VENDOR /\ a.req.bRequest = 1
    /\ a.p # 0 /\ x360[a.p].itf_num = a.req.wIndex /\ x360[a.p].rhport = a.rhport
    /\ \/ /\ a.req.rcpt = TUSB_REQ_RCPT_INTERFACE
          /\ a.req.wValue \in {X360_HANDLE_RUMBLE, X360_HANDLE_CONTROL}
       \/ /\ a.req.rcpt = TUSB_REQ_RCPT_DEVICE
          /\ a.req.wValue = X360_HANDLE_SERIAL

\* the request of the call a asks for an MS OS feature descriptor whose
\* provider the application defines
MsOsRecognized(a) ==
    /\ a.req.type = TUSB_REQ_TYPE_VENDOR
    /\ a.req.bRequest = MS_OS_DESCRIPTOR_VENDORCODE
    /\ \/ /\ a.req.wIndex = MS_EXTENDED_COMPATID_DESCRIPTOR
          /\ "tud_descriptor_ms_compatid_cb" \in cbs
       \/ /\ a.req.wIndex = MS_EXTENDED_PROPERTIES_DESCRIPTOR
          /\ "tud_descriptor_ms_property_cb" \in cbs

\* the request of the call a is a GET_DESCRIPTOR for a HID descriptor type or
\* a GET_REPORT, GET_IDLE or GET_PROTOCOL, for a bound HID instance on its port
HidGetRecognized(a) ==
    /\ a.req.rcpt = TUSB_REQ_RCPT_INTERFACE
    /\ a.p # 0 /\ chidd[a.p].itf_num = a.req.wIndex /\ chidd[a.p].rhport = a.rhport
    /\ \/ /\ a.req.type = TUSB_REQ_TYPE_STANDARD
          /\ a.req.bRequest = TUSB_REQ_GET_DESCRIPTOR
          /\ tu_u16_high(a.req.wValue) \in {HID_DESC_TYPE_HID, HID_DESC_TYPE_REPORT,
                                            HID_DESC_TYPE_PHYSICAL}
       \/ /\ a.req.type = TUSB_REQ_TYPE_CLASS /\ a.req.dir = 1
          /\ a.req.bRequest \in {HID_REQ_CONTROL_GET_REPORT, HID_REQ_CONTROL_GET_IDLE,
                                 HID_REQ_CONTROL_GET_PROTOCOL}

\* C21: for a recognized X360 vendor request, MS OS feature-descriptor request
\* or HID GET_DESCRIPTOR / GET_REPORT / GET_IDLE / GET_PROTOCOL request, a
\* reply is queued at the SETUP stage only; at the DATA and ACK stages the
\* callback returns true, queues nothing, calls no application callback and
\* changes no state.
C21_ReplyAtSetupOnly ==
    [][LET l == last'
           recognized ==
               \/ /\ l.op = "tud_vendor_control_xfer_cb"
                  /\ (X360Recognized(l.a) \/ MsOsRecognized(l.a))
               \/ /\ l.op = "chidd_control_xfer_cb"
                  /\ HidGetRecognized(l.a)
       IN recognized
            => /\ l.ctrl # <<>> => l.a.stage = CONTROL_STAGE_SETUP
               /\ l.a.stage # CONTROL_STAGE_SETUP
                    => /\ l.ret
                       /\ l.ctrl = <<>>
                       /\ l.calls = <<>>
                       /\ x360' = x360 /\ chidd' = chidd /\ ep' = ep]_vars

\* the DATA stage of a serial number request was reported handled
C21_Witness ==
    /\ last.op = "tud_vendor_control_xfer_cb"
    /\ last.a.stage = CONTROL_STAGE_DATA
    /\ X360Recognized(last.a)
    /\ last.a.req.rcpt = TUSB_REQ_RCPT_DEVICE
    /\ last.ret /\ last.ctrl = <<>>

\* every instance of both drivers is zeroed
AllFree ==
    /\ x360 = [i \in X360Idx |-> X360Zero]
    /\ chidd = [i \in ChiddIdx |-> ChiddZero]

\* in the current state nothing answers for interface number itf: the lookups
\* find no instance, the application's calls return false and the drivers'
\* control callbacks leave every request unhandled
NothingFound(itf) ==
    /\ x360_get_instance_by_itf(x360, itf) = 0
    /\ chidd_get_instance_by_itf(chidd, itf) = 0
    /\ ~x360d_n_ready(x360, ep, itf)
    /\ ~chidd_ready(chidd, ep, itf)
    /\ \A report \in Controls : ~x360d_n_report(x360, ep, itf, report).ret
    /\ \A report \in AppBufs, len \in 1..2 :
          /\ ~chidd_send_report(chidd, ep, itf, report, len).ret
          /\ ~chidd_receive_report(chidd, ep, itf, report, len).ret
    /\ ~chidd_get_protocol(chidd, itf).ret
    /\ \A rhport \in RhPorts, stage \in ControlStages :
          /\ \A q \in X360Reqs :
                LET r == x360d_control_xfer_cb(x360, rhport, stage,
                                               [q EXCEPT !.wIndex = itf])
                IN ~r.ret /\ r.ctrl = <<>> /\ r.x = x360
          /\ \A q \in HidReqs :
                LET r == chidd_control_xfer_cb(chidd, cbs, rhport, stage,
                                               [q EXCEPT !.wIndex = itf], NoAppRet)
                IN ~r.ret /\ r.ctrl = <<>> /\ r.calls = <<>> /\ r.c = chidd

IsX360Triple(d) == d.cls = 255 /\ d.sub = 93 /\ d.proto = 1

\* the open call a bound the block to slot p, free in `before': `after' holds
\* the interface number and the port in p and every other slot is unchanged
BoundIn(before, after, idx, a) ==
    \E p \in idx :
        /\ before[p].ep_in = 0 /\ before[p].ep_out = 0
        /\ after[p].ep_in # 0 \/ after[p].ep_out # 0
        /\ after[p].itf_num = a.d.itf /\ after[p].rhport = a.rhport
        /\ \A j \in idx \ {p} : after[j] = before[j]

\* C23: x360d_open binds only an interface whose class / subclass / protocol
\* is 0xFF / 0x5D / 0x01 and chidd_open only one whose class is 0x03, whatever
\* its subclass and protocol; a non-matching interface returns 0 and changes
\* no instance; a successful bind returns the length of the interface
\* descriptor, the class-specific descriptor and bNumEndpoints endpoint
\* descriptors, and records the interface number and the port in a slot that
\* was free.
C23_OpenByClass ==
    [][/\ last'.op = "x360d_open"
            => LET a == last'.a
               IN /\ last'.ret # 0 => IsX360Triple(a.d)
                  /\ ~IsX360Triple(a.d)
                       => last'.ret = 0 /\ x360' = x360 /\ ep' = ep
                  /\ last'.ret # 0
                       => /\ last'.ret = 9 + 17 + 7 * Len(a.d.eps)
                          /\ BoundIn(x360, x360', X360Idx, a)
                  /\ chidd' = chidd
       /\ last'.op = "chidd_open"
            => LET a == last'.a
               IN /\ last'.ret # 0 => a.d.cls = 3
                  /\ a.d.cls # 3
                       => last'.ret = 0 /\ chidd' = chidd /\ ep' = ep
                  /\ last'.ret # 0
                       => /\ last'.ret = 9 + 9 + 7 * Len(a.d.eps)
                          /\ BoundIn(chidd, chidd', ChiddIdx, a)
                  /\ \A sub \in {0, 1, 255}, proto \in {0, 2} :
                        LET r == chidd_open(chidd, ep, cbs, a.rhport,
                                            [a.d EXCEPT !.sub = sub, !.proto = proto],
                                            a.max_len, a.rearm)
                        IN r.ret = last'.ret /\ r.c = chidd' /\ r.ep = ep'
                  /\ x360' = x360]_vars

\* a HID interface with the boot subclass and the keyboard protocol was bound
\* on port 1 next to an interface bound before
C23_Witness ==
    /\ last.op = "chidd_open"
    /\ last.a.d.sub = 1 /\ last.a.d.proto = 1 /\ last.a.rhport = 1
    /\ last.ret = 32
    /\ chidd[2].itf_num = 1 /\ chidd[2].rhport = 1 /\ chidd[2].ep_in = 129
    /\ chidd[1].ep_in # 0

\* the outcome r of a successful chidd_open of block d, in an application with
\* the callbacks cb whose hook body is rearm: a slot free in `before' is bound
\* with protocol_mode Report, the hook was called once with the interface
\* number exactly when an OUT endpoint was opened (and the hook is defined),
\* and a chidd_receive_report of the hook for that interface armed the OUT
\* endpoint
OpenedOk(before, r, d, cb, rearm) ==
    r.ret # 0
      => \E p \in ChiddIdx :
            /\ before[p].ep_in = 0 /\ before[p].ep_out = 0
            /\ r.c[p].ep_in # 0 \/ r.c[p].ep_out # 0
            /\ r.c[p].itf_num = d.itf
            /\ r.c[p].protocol_mode = 1
            /\ r.calls = IF r.c[p].ep_out # 0 /\ "chidd_out_endpoint_opened_cb" \in cb
                         THEN <<[cb |-> "chidd_out_endpoint_opened_cb",
                                 args |-> <<d.itf>>]>>
                         ELSE <<>>
            /\ (r.calls # <<>> /\ rearm.do /\ rearm.itf = d.itf)
                 => /\ r.ep[r.c[p].ep_out].queue
                         = <<[buf |-> rearm.buf, len |-> rearm.len]>>
                    /\ r.c[p].transfer_out_buf = rearm.buf
                    /\ r.c[p].transfer_out_size = rearm.len
            /\ r.calls = <<>>
                 => \A a \in EpAddrs : r.ep[a].queue = <<>>

\* C24: a successful chidd_open leaves the instance with protocol_mode Report
\* (1); chidd_out_endpoint_opened_cb(itf) is called exactly once if and only
\* if an OUT endpoint was opened, after the interface number and the endpoints
\* are recorded: a chidd_receive_report(itf, ...) inside the hook finds the
\* instance and arms its OUT endpoint.
C24_HookAfterBind ==
    [][last'.op = "chidd_open"
         => /\ OpenedOk(chidd, [c |-> chidd', ep |-> ep', ret |-> last'.ret,
                                calls |-> last'.calls],
                        last'.a.d, cbs, last'.a.rearm)
            /\ \A d \in HidDescs, rearm \in Rearms, rhport \in RhPorts,
                  cb \in {cbs, cbs \ {"chidd_out_endpoint_opened_cb"}} :
                  OpenedOk(chidd_reset(chidd),
                           chidd_open(chidd_reset(chidd), [a \in EpAddrs |-> EpIdle],
                                      cb, rhport, d, HidDrvLen(d), rearm),
                           d, cb, rearm)]_vars

\* the hook of the keyboard interface armed the OUT endpoint during the open
C24_Witness ==
    /\ last.op = "chidd_open" /\ last.ret # 0
    /\ last.calls = <<[cb |-> "chidd_out_endpoint_opened_cb", args |-> <<0>>]>>
    /\ last.a.rearm.do
    /\ chidd[1].protocol_mode = 1
    /\ ep[chidd[1].ep_out].queue = <<[buf |-> 1, len |-> 1]>>

\* C25: a GET_REPORT class request (direction IN) for a bound HID instance at
\* the SETUP stage calls chidd_get_report_cb(itf, low(wValue), high(wValue))
\* exactly once and queues a control IN reply with exactly the returned
\* buffer and length; when the callback returns null or a zero length the
\* request is stalled and no reply is queued.
C25_GetReport ==
    [][\A i \in ChiddIdx :
         ClassSetup(last', i, HID_REQ_CONTROL_GET_REPORT, 1)
           => LET a == last'.a
                  got == a.appret
              IN /\ last'.calls = <<[cb |-> "chidd_get_report_cb",
                                     args |-> <<chidd[i].itf_num, a.req.wValue % 256,
                                                a.req.wValue \div 256>>]>>
                 /\ IF got.buf # 0 /\ got.len > 0
                    THEN /\ last'.ret
                         /\ last'.ctrl = <<[kind |-> "data", buf |-> got.buf,
                                            data |-> <<>>, len |-> got.len]>>
                    ELSE ~last'.ret /\ last'.ctrl = <<>>]_vars

\* the report of id 2, type Input came back from the callback and was replied
C25_Witness ==
    /\ last.op = "chidd_control_xfer_cb" /\ last.a.stage = CONTROL_STAGE_SETUP
    /\ last.a.req.bRequest = HID_REQ_CONTROL_GET_REPORT /\ last.a.req.dir = 1
    /\ last.a.req.wValue = 258
    /\ last.calls = <<[cb |-> "chidd_get_report_cb", args |-> <<0, 2, 1>>]>>
    /\ last.ret /\ Len(last.ctrl) = 1 /\ last.ctrl[1].buf = 1 /\ last.ctrl[1].len = 1

\* the call l is a SET_REPORT class request (direction OUT) that
\* chidd_control_xfer_cb hands to the class handler for instance i
SetReportFor(l, i) ==
    /\ l.op = "chidd_control_xfer_cb"
    /\ l.a.p = i /\ l.a.rhport = chidd[i].rhport /\ l.a.req.wIndex = chidd[i].itf_num
    /\ l.a.req.rcpt = TUSB_REQ_RCPT_INTERFACE /\ l.a.req.type = TUSB_REQ_TYPE_CLASS
    /\ l.a.req.bRequest = HID_REQ_CONTROL_SET_REPORT /\ l.a.req.dir = 0

\* C26: for a SET_REPORT class request (direction OUT) on a bound HID
\* instance, at SETUP the driver obtains a buffer from
\* chidd_set_report_cb(itf, low(wValue), high(wValue)) and queues a control
\* data-OUT into it, and stalls when the callback is absent or returns null
\* or a zero length; chidd_report_received_complete_cb(itf, id, type, that
\* buffer, wLength) is called exactly once at the ACK stage and never at
\* SETUP or DATA.
C26_SetReportStages ==
    [][\A i \in ChiddIdx :
         SetReportFor(last', i)
           => LET a == last'.a
                  got == a.appret
                  id == a.req.wValue % 256
                  type == a.req.wValue \div 256
              IN /\ a.stage = CONTROL_STAGE_SETUP
                      => IF "chidd_set_report_cb" \notin cbs
                         THEN ~last'.ret /\ last'.ctrl = <<>> /\ last'.calls = <<>>
                         ELSE /\ last'.calls = <<[cb |-> "chidd_set_report_cb",
                                                  args |-> <<chidd[i].itf_num, id, type>>]>>
                              /\ (got.buf # 0 /\ got.wrote /\ got.len > 0)
                                   => /\ last'.ret
                                      /\ last'.ctrl = <<CtrlData(got.buf, <<>>, got.len)>>
                              /\ (got.buf = 0 \/ (got.wrote /\ got.len = 0))
                                   => ~last'.ret /\ last'.ctrl = <<>>
                 /\ CallsOf(last'.calls, "chidd_report_received_complete_cb")
                      = IF a.stage = CONTROL_STAGE_ACK
                           /\ "chidd_report_received_complete_cb" \in cbs
                        THEN 1 ELSE 0
                 /\ (a.stage = CONTROL_STAGE_ACK
                     /\ "chidd_report_received_complete_cb" \in cbs)
                      => last'.calls =
                           <<[cb |-> "chidd_report_received_complete_cb",
                              args |-> <<chidd[i].itf_num, id, type,
                                         ctl[1].setup.buf, a.req.wLength>>]>>]_vars

\* C27: a SET_IDLE or SET_PROTOCOL request (direction OUT) for a bound HID
\* instance at the SETUP stage is handled: chidd_control_xfer_cb returns true
\* and queues the status, whether or not chidd_set_idle_cb /
\* chidd_set_protocol_cb is registered; the callback, when registered, is
\* called once and only notified of the new value.
C27_SetHandledWithoutCallback ==
    [][\A i \in ChiddIdx :
         /\ ClassSetup(last', i, HID_REQ_CONTROL_SET_IDLE, 0)
              => /\ last'.ret
                 /\ last'.ctrl = <<CtrlStatus>>
                 /\ CallsOf(last'.calls, "chidd_set_idle_cb")
                      = IF "chidd_set_idle_cb" \in cbs THEN 1 ELSE 0
         /\ ClassSetup(last', i, HID_REQ_CONTROL_SET_PROTOCOL, 0)
              => /\ last'.ret
                 /\ last'.ctrl = <<CtrlStatus>>
                 /\ CallsOf(last'.calls, "chidd_set_protocol_cb")
                      = IF "chidd_set_protocol_cb" \in cbs THEN 1 ELSE 0]_vars

\* the call l is a standard request at the SETUP stage that
\* chidd_control_xfer_cb hands to the standard handler for instance i
StandardSetup(l, i) ==
    /\ l.op = "chidd_control_xfer_cb"
    /\ l.a.p = i /\ l.a.rhport = chidd[i].rhport /\ l.a.req.wIndex = chidd[i].itf_num
    /\ l.a.stage = CONTROL_STAGE_SETUP
    /\ l.a.req.rcpt = TUSB_REQ_RCPT_INTERFACE /\ l.a.req.type = TUSB_REQ_TYPE_STANDARD

\* the call l replied with the descriptor the application callback returned,
\* or stalled when it returned null or a zero length
DescriptorFrom(l, call) ==
    /\ l.calls = <<call>>
    /\ IF l.a.appret.buf # 0 /\ l.a.appret.len > 0
       THEN l.ret /\ l.ctrl = <<CtrlData(l.a.appret.buf, <<>>, l.a.appret.len)>>
       ELSE ~l.ret /\ l.ctrl = <<>>

C29_ProtocolModeValid ==
    \A i \in ChiddIdx : Bound(chidd[i]) => chidd[i].protocol_mode \in {0, 1}

\* The 16-bit wIndex of the request is the interface number of a bound
\* X360 instance.
X360ItfBound(wIndex) ==
    \E i \in X360Idx : Bound(x360[i]) /\ x360[i].itf_num = wIndex

\* C30: x360d_control_xfer_cb returns unhandled, with no reply queued, for
\* every request that is not vendor-type with bRequest 0x01, and for every
\* such request whose 16-bit wIndex is not exactly the interface number of a
\* bound X360 instance: a wIndex whose low byte is a bound interface number
\* and whose high byte is not zero included, device-recipient requests
\* included.
C30_UnaddressedUnhandled ==
    (/\ last.op = "tud_vendor_control_xfer_cb"
     /\ \/ last.a.req.type # TUSB_REQ_TYPE_VENDOR
        \/ last.a.req.bRequest # 1
        \/ ~X360ItfBound(last.a.req.wIndex))
        => ~last.a.x360d.ret /\ last.a.x360d.ctrl = <<>>

C30_Witness ==
    /\ last.op = "tud_vendor_control_xfer_cb"
    /\ last.a.stage = CONTROL_STAGE_SETUP
    /\ last.a.req.type = TUSB_REQ_TYPE_VENDOR /\ last.a.req.bRequest = 1
    /\ last.a.req.rcpt = TUSB_REQ_RCPT_DEVICE
    /\ last.a.req.wValue = X360_HANDLE_SERIAL
    /\ last.a.req.wIndex = 256
    /\ last.a.p # 0 /\ x360[last.a.p].itf_num = 0 /\ x360[last.a.p].rhport = last.a.rhport
    /\ ~X360ItfBound(256)
    /\ ~last.a.x360d.ret /\ last.a.x360d.ctrl = <<>>

\* The 16-bit wIndex of the request is the interface number of a bound HID
\* instance.
HidItfBound(wIndex) ==
    \E i \in ChiddIdx : Bound(chidd[i]) /\ chidd[i].itf_num = wIndex

\* C31: chidd_control_xfer_cb returns unhandled, with no application callback
\* invoked, no reply queued and no instance field changed, for every request
\* whose recipient is not the interface, whose wIndex is not the interface
\* number of a bound HID instance, or whose type is neither standard nor
\* class.
C31_UnaddressedUnhandled ==
    [][(/\ last'.op = "chidd_control_xfer_cb"
        /\ \/ last'.a.req.rcpt # TUSB_REQ_RCPT_INTERFACE
           \/ ~HidItfBound(last'.a.req.wIndex)
           \/ last'.a.req.type \notin {TUSB_REQ_TYPE_STANDARD, TUSB_REQ_TYPE_CLASS})
          => /\ ~last'.ret
             /\ last'.calls = <<>> /\ last'.ctrl = <<>>
             /\ chidd' = chidd]_vars

C31_Witness ==
    /\ last.op = "chidd_control_xfer_cb"
    /\ last.a.stage = CONTROL_STAGE_SETUP
    /\ last.a.req.type = TUSB_REQ_TYPE_CLASS
    /\ last.a.req.rcpt = TUSB_REQ_RCPT_DEVICE
    /\ last.a.req.bRequest = HID_REQ_CONTROL_GET_PROTOCOL
    /\ HidItfBound(last.a.req.wIndex)
    /\ chidd[last.a.p].rhport = last.a.rhport
    /\ ~last.ret /\ last.calls = <<>> /\ last.ctrl = <<>>

\* C32: a successful OUT transfer of 8 bytes with type byte 0x00 (a rumble
\* message) calls x360d_received_rumble_cb, when the application defines it,
\* exactly once with the instance's interface number, byte 3 as left and byte
\* 4 as right of the received message; the OUT endpoint has no transfer
\* queued while the callback runs, the buffer holds the message, and the
\* endpoint is armed again with the instance's OUT buffer afterwards.
C32_RumbleBeforeRearm ==
    [][\A i \in X360Idx :
         (/\ X360OutReceived(last', i)
          /\ last'.a.n = SizeofX360MessageRumble
          /\ last'.a.msg[1] = X360_MESSAGE_TYPE_OUT_RUMBLE
          /\ "x360d_received_rumble_cb" \in cbs)
           => /\ last'.calls = <<[cb |-> "x360d_received_rumble_cb",
                                  args |-> <<x360[i].itf_num, last'.a.msg[4],
                                             last'.a.msg[5]>>]>>
              /\ ~last'.a.armed_at_cb
              /\ x360'[i].transfer_out_buf = last'.a.msg
              /\ ep'[x360[i].ep_out].busy
              /\ ep'[x360[i].ep_out].queue =
                   <<[buf |-> X360OutBuf(i), len |-> X360_TRANSFER_OUT_BUFFER_SIZE]>>]_vars

\* the rumble 00 08 00 80 40 00 00 00 reached the application as (itf 0,
\* left 0x80, right 0x40) and OUT is armed again
C32_Witness ==
    /\ last.op = "x360d_xfer_cb" /\ last.a.p # 0
    /\ last.a.result = XFER_RESULT_SUCCESS
    /\ last.a.ep_addr = x360[last.a.p].ep_out
    /\ last.a.msg = <<0, 8, 0, 128, 64, 0, 0, 0>>
    /\ last.calls = <<[cb |-> "x360d_received_rumble_cb", args |-> <<0, 128, 64>>]>>
    /\ ~last.a.armed_at_cb
    /\ ep[last.a.ep_addr].busy

\* C33: while the IN transfer queued by x360d_n_report for an X360 instance
\* is outstanding, the instance's IN buffer keeps the bytes of the serialized
\* report, also across a vendor capability or serial-number request answered
\* for the instance, so that x360d_report_complete_cb is handed the report
\* that was sent.
C33_InBufferStable ==
    [][\A i \in X360Idx :
         (/\ Bound(x360[i]) /\ x360[i].ep_in # 0
          /\ ep[x360[i].ep_in].queue # <<>>
          /\ x360'[i].ep_in = x360[i].ep_in
          /\ ep'[x360[i].ep_in].queue = ep[x360[i].ep_in].queue)
           => x360'[i].transfer_in_buf = x360[i].transfer_in_buf]_vars

\* C34: when the IN transfer queued by chidd_send_report completes
\* successfully, chidd_report_sent_complete_cb is called with the buffer
\* pointer of that transfer, the one given to chidd_send_report, also when a
\* GET_REPORT request for the instance was handled in between.
C34_SentBufferAsGiven ==
    (/\ last.op = "chidd_xfer_cb" /\ last.a.p # 0
     /\ last.a.result = XFER_RESULT_SUCCESS
     /\ last.a.rhport = chidd[last.a.p].rhport
     /\ last.a.ep_addr = chidd[last.a.p].ep_in
     /\ "chidd_report_sent_complete_cb" \in cbs)
        => last.calls = <<[cb |-> "chidd_report_sent_complete_cb",
                           args |-> <<chidd[last.a.p].itf_num, last.a.xf.buf,
                                      last.a.n>>]>>

\* C35: a SET_REPORT request, accepted or stalled, for a HID instance whose
\* OUT endpoint is armed leaves the buffer pointer and length recorded for
\* the outstanding OUT transfer as chidd_receive_report stored them, so that
\* the completion delivers, or arms again with, that buffer and length.
C35_SetReportKeepsArmedOut ==
    [][\A i \in ChiddIdx :
         (/\ last'.op = "chidd_control_xfer_cb" /\ last'.a.p = i
          /\ last'.a.req.type = TUSB_REQ_TYPE_CLASS
          /\ last'.a.req.bRequest = HID_REQ_CONTROL_SET_REPORT
          /\ chidd[i].ep_out # 0
          /\ ep[chidd[i].ep_out].queue # <<>>)
           => /\ chidd'[i].transfer_out_buf = chidd[i].transfer_out_buf
              /\ chidd'[i].transfer_out_size = chidd[i].transfer_out_size]_vars

\* C36: a chidd_send_report that returns false has left the endpoints as they
\* were, the IN endpoint unclaimed, and the recorded IN buffer unchanged, so
\* that a later call with a buffer and a length on the idle endpoint succeeds;
\* this includes the calls with a null buffer and with length 0.
C36_FailedSendLeavesNoTrace ==
    [][(last'.op = "chidd_send_report" /\ ~last'.ret)
         => (ep' = ep /\ chidd' = chidd)]_vars

\* C37: no API call claims endpoint 0 or submits a transfer on it:
\* x360d_n_report and chidd_send_report on a bound instance without an IN
\* endpoint, and chidd_receive_report on a bound instance without an OUT
\* endpoint, return false and leave endpoint 0 as it was.
C37_EndpointZeroUntouched ==
    [][(last'.op \in {"x360d_n_report", "chidd_send_report", "chidd_receive_report"})
         => /\ ep'[0] = ep[0]
            /\ (/\ last'.a.p # 0
                /\ IF last'.op = "x360d_n_report" THEN x360[last'.a.p].ep_in = 0
                   ELSE IF last'.op = "chidd_send_report"
                   THEN chidd[last'.a.p].ep_in = 0
                   ELSE chidd[last'.a.p].ep_out = 0)
                 => ~last'.ret]_vars

\* C38: at the ACK stage of a SET_REPORT request the length passed to
\* chidd_report_received_complete_cb is at most the buffer size that
\* chidd_set_report_cb returned at the SETUP stage of the same request, also
\* when the request's wLength is larger than that size.
C38_AckLengthWithinBuffer ==
    [][(/\ last'.op = "chidd_control_xfer_cb"
        /\ ctl # <<>>
        /\ last'.a.stage = CONTROL_STAGE_ACK
        /\ last'.a.req.type = TUSB_REQ_TYPE_CLASS
        /\ last'.a.req.bRequest = HID_REQ_CONTROL_SET_REPORT)
          => \A k \in 1..Len(last'.calls) :
               last'.calls[k].cb = "chidd_report_received_complete_cb"
                 => last'.calls[k].args[5] <= ctl[1].setup.len]_vars

\* C39: when every slot of a driver's instance array is bound, a further open
\* returns 0, opens no endpoint and leaves every instance record of the
\* driver as it was, also for an interface block the driver would accept.
C39_FullArrayRefuses ==
    [][/\ (last'.op = "x360d_open" /\ \A i \in X360Idx : Bound(x360[i]))
            => last'.ret = 0 /\ x360' = x360 /\ ep' = ep
       /\ (last'.op = "chidd_open" /\ \A i \in ChiddIdx : Bound(chidd[i]))
            => last'.ret = 0 /\ chidd' = chidd /\ ep' = ep /\ last'.calls = <<>>]_vars

\* with both HID slots bound to the example's interfaces, the keyboard block
\* was offered again with its exact length and refused
C39_Witness ==
    /\ last.op = "chidd_open"
    /\ last.a.d = HidDesc(0, IntPair(129, 1))
    /\ last.a.max_len = last.a.drv_len
    /\ last.ret = 0
    /\ chidd[1].itf_num = 0 /\ chidd[1].ep_in = 129 /\ chidd[1].ep_out = 1
    /\ chidd[2].itf_num = 1 /\ chidd[2].ep_in = 130 /\ chidd[2].ep_out = 2
    /\ chidd[1].rhport = last.a.rhport /\ chidd[2].rhport = last.a.rhport

\* C40: in every state in which x360d_n_ready(itf) or chidd_ready(itf)
\* returns true, the call x360d_n_report(itf, controls), respectively
\* chidd_send_report(itf, buf, len) with a buffer and a length, made next
\* returns true.
C40_ReadyThenSent ==
    \A itf \in ApiItfs :
        /\ x360d_n_ready(x360, ep, itf)
             => \A report \in Controls : x360d_n_report(x360, ep, itf, report).ret
        /\ chidd_ready(chidd, ep, itf)
             => \A buf \in AppBufs, len \in XferLens \ {0} :
                    chidd_send_report(chidd, ep, itf, buf, len).ret

====
